---- MODULE Spec2Model ----
(***************************************************************************)
(* Model of notebooks/PageRank.ipynb: the cells of the notebook, run top   *)
(* to bottom, over the graphs the random generator can return.             *)
(*                                                                         *)
(* Numbers.  The notebook computes in float64.  A number is modelled as an *)
(* exact rational <<num, den>> in lowest terms with den > 0, plus the IEEE *)
(* specials +inf = <<1,0>>, -inf = <<-1,0>> and nan = <<0,0>>, so that     *)
(* 1.0/0 and 0*inf behave as numpy computes them.  The two iterative       *)
(* routines (matrix_power with a positive exponent, pagerank) cannot be    *)
(* carried exactly: there every matrix product is rounded to the nearest   *)
(* multiple of 1/Prec, the model's unit roundoff.                          *)
(***************************************************************************)
EXTENDS Integers, Sequences, FiniteSets, TLC

VARIABLES pc, n, G, A, D_inv, P, P_s, pr_alpha, pr, alpha, PP_s, err

\* the names of the Laplacian Eigenmaps notebook (it has an A of its own);
\* solver, runs and first record what np.linalg.eig answers for L, how often
\* the embedder ran and what its first run left
VARIABLES g_nx, D, L, embedding_size, w, v, order, v_0, solver, runs, first

lapVars == <<g_nx, D, L, embedding_size, w, v, order, v_0, solver, runs, first>>

\* what the cells A @ A, A @ A @ A, ... of the PageRank notebook display, and
\* the power of A it is
VARIABLES Out, power

shownVars == <<Out, power>>

\* the names of the DeepWalk notebook; rng is the state of the random number
\* generator behind dgl.sampling.random_walk and repeat counts the passes of
\* the loop made so far
VARIABLES graph, nodes, num_repeats, length, doc, rng, repeat

walkVars == <<graph, nodes, num_repeats, length, doc, rng, repeat>>

\* the names of the graph convolutional network part of the PageRank
\* notebook; h and i_layer are the locals h and i of GCN.forward, h_feats the
\* list the model was built from, and torch_seed the state of the generator
\* behind the initial weights and the dropout masks
VARIABLES cora_dataset, cora_graph, model, h_feats, torch_seed, h, i_layer, logits

gcnVars == <<cora_dataset, cora_graph, model, h_feats, torch_seed, h, i_layer, logits>>

\* the locals of train: epoch is the loop variable e
VARIABLES epochs, epoch, best_val_acc, best_test_acc, accs

trainVars == <<epochs, epoch, best_val_acc, best_test_acc, accs>>

\* the names of the link prediction part of the DeepWalk notebook; zip_pos
\* counts the candidate pairs the negative sampling loop has taken from zip
VARIABLES all_edges, num_train_edges, edge_index, edges, edge_labels, eids
VARIABLES source_nodes_candidate, target_nodes_candidate, source_nodes, target_nodes, count, zip_pos

linkVars == <<all_edges, num_train_edges, edge_index, edges, edge_labels, eids,
              source_nodes_candidate, target_nodes_candidate, source_nodes, target_nodes, count, zip_pos>>

\* the names the PageRank cells from G to PP_s do not touch
outsidePageRank == <<lapVars, shownVars, walkVars, gcnVars, trainVars, linkVars>>

\* the names of the PageRank notebook the other notebooks do not touch
prVars == <<G, D_inv, P, P_s, pr_alpha, pr, alpha, PP_s>>

\* the names the Laplacian Eigenmaps notebook does not touch
outsideLaplacian == <<prVars, shownVars, walkVars, gcnVars, trainVars, linkVars>>

\* the names the cells showing the powers of A do not touch
outsidePowers == <<prVars, lapVars, walkVars, gcnVars, trainVars, linkVars>>

\* the names the DeepWalk notebook does not touch
outsideDeepWalk == <<n, A, err, prVars, lapVars, shownVars, gcnVars, trainVars, linkVars>>

\* the names the graph convolutional network cells do not touch
outsideGCN == <<n, A, prVars, lapVars, shownVars, walkVars, trainVars, linkVars>>

\* the names train does not touch
outsideTrain == <<n, A, err, prVars, lapVars, shownVars, walkVars, linkVars>>

\* the names the link prediction cells do not touch
outsideLink == <<n, A, prVars, lapVars, shownVars, gcnVars, trainVars,
                 num_repeats, length, doc, rng, repeat>>

vars == <<pc, n, G, A, D_inv, P, P_s, pr_alpha, pr, alpha, PP_s, err, lapVars, shownVars, walkVars, gcnVars, trainVars, linkVars>>


\* ---------------------------------------------------------------- bounds
\* largest number of nodes of a generated graph
MaxNodes == 4
\* largest dimension and entry of an arbitrary adjacency matrix (SpecMatrix)
MaxDim == 2
MaxWeight == 2

\* value of a variable no cell has assigned yet
None == <<>>

\* ------------------------------------------------------------- float64
Abs(x) == IF x < 0 THEN -x ELSE x

Sgn(x) == IF x < 0 THEN -1 ELSE IF x > 0 THEN 1 ELSE 0

RECURSIVE GCD(_, _)
GCD(a, b) == IF b = 0 THEN a ELSE GCD(b, a % b)

\* the float with value num/den; den = 0 gives inf, -inf or nan
Norm(num, den) ==
    IF den = 0 THEN <<Sgn(num), 0>>
    ELSE LET g == GCD(Abs(num), den) IN <<num \div g, den \div g>>

Inf == <<1, 0>>
NaN == <<0, 0>>
Zero == <<0, 1>>
One == <<1, 1>>

FromInt(k) == <<k, 1>>

IsFinite(x) == x[2] # 0

IsNaN(x) == x = NaN

Neg(x) == <<-x[1], x[2]>>

\* IEEE product: nan propagates, 0 * inf = nan
Mul(x, y) ==
    IF ~IsFinite(x) \/ ~IsFinite(y)
    THEN IF IsNaN(x) \/ IsNaN(y) THEN NaN ELSE <<Sgn(x[1]) * Sgn(y[1]), 0>>
    ELSE LET g1 == GCD(Abs(x[1]), y[2])
             g2 == GCD(Abs(y[1]), x[2])
         IN  <<(x[1] \div g1) * (y[1] \div g2), (x[2] \div g2) * (y[2] \div g1)>>

\* IEEE sum: nan propagates, inf - inf = nan
Add(x, y) ==
    IF ~IsFinite(x) \/ ~IsFinite(y)
    THEN IF IsNaN(x) \/ IsNaN(y) THEN NaN
         ELSE IF ~IsFinite(x) /\ ~IsFinite(y)
              THEN (IF x = y THEN x ELSE NaN)
              ELSE (IF ~IsFinite(x) THEN x ELSE y)
    ELSE LET g == GCD(x[2], y[2])
             l == (x[2] \div g) * y[2]
         IN  Norm(x[1] * (l \div x[2]) + y[1] * (l \div y[2]), l)

Sub(x, y) == Add(x, Neg(y))

\* IEEE 1/x with numpy's default error state: 1/0 = inf (a warning, no exception)
Recip(x) ==
    IF ~IsFinite(x) THEN (IF IsNaN(x) THEN NaN ELSE Zero)
    ELSE IF x[1] = 0 THEN Inf
    ELSE IF x[1] > 0 THEN <<x[2], x[1]>> ELSE <<-x[2], -x[1]>>

Div(x, y) == Mul(x, Recip(y))

\* x < y, false when either side is nan
Less(x, y) ==
    IF IsNaN(x) \/ IsNaN(y) THEN FALSE
    ELSE IF ~IsFinite(x) THEN x[1] < 0 /\ x # y
    ELSE IF ~IsFinite(y) THEN y[1] > 0
    ELSE x[1] * y[2] < y[1] * x[2]

Leq(x, y) == x = y \/ Less(x, y)

AbsF(x) == <<Abs(x[1]), x[2]>>

\* ------------------------------------------------------------ matrices
Nodes(m) == 1..m

\* the function f over 1..m as the tuple of its values (an array in memory)
Tup(f) == f \o <<>>

RECURSIVE SumTo(_, _)
\* f[1] + ... + f[k], added left to right
SumTo(f, k) == IF k = 0 THEN Zero ELSE Add(SumTo(f, k - 1), f[k])

RECURSIVE IntSumTo(_, _)
IntSumTo(f, k) == IF k = 0 THEN 0 ELSE IntSumTo(f, k - 1) + f[k]

\* X @ Y for m x m matrices
MatMul(X, Y, m) ==
    Tup([i \in Nodes(m) |-> Tup([j \in Nodes(m) |->
        SumTo([k \in Nodes(m) |-> Mul(X[i][k], Y[k][j])], m)])])

\* c * X
Scale(c, X, m) == Tup([i \in Nodes(m) |-> Tup([j \in Nodes(m) |-> Mul(c, X[i][j])])])

MatSub(X, Y, m) == Tup([i \in Nodes(m) |-> Tup([j \in Nodes(m) |-> Sub(X[i][j], Y[i][j])])])

\* np.identity(m)
Identity(m) == Tup([i \in Nodes(m) |-> Tup([j \in Nodes(m) |-> IF i = j THEN One ELSE Zero])])

\* the integer matrix X as floats
AsFloat(X, m) == Tup([i \in Nodes(m) |-> Tup([j \in Nodes(m) |-> FromInt(X[i][j])])])

\* X.sum(axis=1): the row sums
RowSums(X, m) == Tup([i \in Nodes(m) |-> IntSumTo(X[i], m)])

\* np.diagflat(v)
Diagflat(x, m) == Tup([i \in Nodes(m) |-> Tup([j \in Nodes(m) |-> IF i = j THEN x[i] ELSE Zero])])

\* column j of X
Col(X, j, m) == Tup([i \in Nodes(m) |-> X[i][j]])

AllFinite(X, m) == \A i, j \in Nodes(m) : IsFinite(X[i][j])

\* ------------------------------------------------- rounded arithmetic
\* the unit roundoff of the iterative routines is 1/Prec
Prec == 10000

\* the integer nearest to the finite float x
RoundInt(x) == (2 * x[1] + x[2]) \div (2 * x[2])

\* the mantissa of x: x rounded to a whole number of 1/Prec
ToFix(x) == RoundInt(Mul(x, FromInt(Prec)))

\* the float with mantissa k
FromFix(k) == Norm(k, Prec)

FixMat(X, m) == Tup([i \in Nodes(m) |-> Tup([j \in Nodes(m) |-> ToFix(X[i][j])])])

UnfixMat(X, m) == Tup([i \in Nodes(m) |-> Tup([j \in Nodes(m) |-> FromFix(X[i][j])])])

\* X @ Y on mantissas, every entry rounded once
FixMatMul(X, Y, m) ==
    Tup([i \in Nodes(m) |-> Tup([j \in Nodes(m) |->
        (IntSumTo([k \in Nodes(m) |-> X[i][k] * Y[k][j]], m) + Prec \div 2) \div Prec])])

NaNMatrix(m) == Tup([i \in Nodes(m) |-> Tup([j \in Nodes(m) |-> NaN])])

\* --------------------------------------------------------------- graphs
\* the node pairs an undirected simple graph on m nodes may join
Pairs(m) == {e \in Nodes(m) \X Nodes(m) : e[1] < e[2]}

\* variant: every edge stored in one direction only, as for a directed graph
AdjacencyDirected(E, m) ==
    Tup([i \in Nodes(m) |-> Tup([j \in Nodes(m) |->
        IF <<i, j>> \in E THEN 1 ELSE 0])])

\* nx.adjacency_matrix(G).todense() of the undirected graph with edge set E
Adjacency(E, m) ==
    Tup([i \in Nodes(m) |-> Tup([j \in Nodes(m) |->
        IF <<i, j>> \in E \/ <<j, i>> \in E THEN 1 ELSE 0])])

\* ------------------------------------------------------------ the cells
\* a fresh kernel: no name is bound
Fresh ==
    /\ n = 0
    /\ G = None
    /\ A = None
    /\ D_inv = None
    /\ P = None
    /\ P_s = None
    /\ pr_alpha = None
    /\ pr = None
    /\ alpha = None
    /\ PP_s = None
    /\ err = "none"
    /\ g_nx = None
    /\ D = None
    /\ L = None
    /\ embedding_size = 0
    /\ w = None
    /\ v = None
    /\ order = None
    /\ v_0 = None
    /\ solver = None
    /\ runs = 0
    /\ first = None
    /\ Out = None
    /\ power = 0
    /\ graph = None
    /\ nodes = None
    /\ num_repeats = 0
    /\ length = 0
    /\ doc = None
    /\ rng = 0
    /\ repeat = 0
    /\ cora_dataset = None
    /\ cora_graph = None
    /\ model = None
    /\ h_feats = None
    /\ torch_seed = 0
    /\ h = None
    /\ i_layer = 0
    /\ logits = None
    /\ epochs = 0
    /\ epoch = 0
    /\ best_val_acc = None
    /\ best_test_acc = None
    /\ accs = None
    /\ all_edges = None
    /\ num_train_edges = 0
    /\ edge_index = None
    /\ edges = None
    /\ edge_labels = None
    /\ eids = None
    /\ source_nodes_candidate = None
    /\ target_nodes_candidate = None
    /\ source_nodes = None
    /\ target_nodes = None
    /\ count = 0
    /\ zip_pos = 0

\* the PageRank notebook before its first cell
Init ==
    /\ pc = "G"
    /\ Fresh

\* G = nx.generators.random_graphs.fast_gnp_random_graph(n, p=0.5, seed)
GenerateGraph ==
    /\ pc = "G"
    /\ \E m \in 1..MaxNodes : \E E \in SUBSET Pairs(m) :
          /\ n' = m
          /\ G' = E
    /\ pc' = "A"
    /\ UNCHANGED <<A, D_inv, P, P_s, pr_alpha, pr, alpha, PP_s, err>>
    /\ UNCHANGED outsidePageRank

\* A = nx.adjacency_matrix(G).todense()
AdjacencyMatrix ==
    /\ pc = "A"
    /\ A' = Adjacency(G, n)
    /\ pc' = "D_inv"
    /\ UNCHANGED <<n, G, D_inv, P, P_s, pr_alpha, pr, alpha, PP_s, err>>
    /\ UNCHANGED outsidePageRank

\* an arbitrary adjacency matrix with non-negative entries (directed,
\* weighted, self-loops allowed) handed to the transition-matrix cells
LoadMatrix ==
    /\ pc = "G"
    /\ \E m \in 1..MaxDim : \E X \in [Nodes(m) -> [Nodes(m) -> 0..MaxWeight]] :
          /\ n' = m
          /\ A' = X
    /\ pc' = "D_inv"
    /\ UNCHANGED <<G, D_inv, P, P_s, pr_alpha, pr, alpha, PP_s, err>>
    /\ UNCHANGED outsidePageRank

\* variant: every degree counted one too high
DInvPlusOne(X, m) ==
    Diagflat(Tup([i \in Nodes(m) |-> Div(One, FromInt(RowSums(X, m)[i] + 1))]), m)

\* variant: a zero degree is replaced by 1 before dividing
DInvGuarded(X, m) ==
    Diagflat(Tup([i \in Nodes(m) |->
        Div(One, FromInt(IF RowSums(X, m)[i] = 0 THEN 1 ELSE RowSums(X, m)[i]))]), m)

\* 1.0 / A.sum(axis=1), then np.diagflat
DInv(X, m) ==
    Diagflat(Tup([i \in Nodes(m) |-> Div(One, FromInt(RowSums(X, m)[i]))]), m)

\* variant: a node without edges is first given a self-loop, written into A
BuildDinvSelfLoops ==
    /\ pc = "D_inv"
    /\ A' = Tup([i \in Nodes(n) |-> Tup([j \in Nodes(n) |->
                IF i = j /\ RowSums(A, n)[i] = 0 THEN 1 ELSE A[i][j]])])
    /\ D_inv' = DInv(A', n)
    /\ pc' = "P"
    /\ UNCHANGED <<n, G, P, P_s, pr_alpha, pr, alpha, PP_s, err>>
    /\ UNCHANGED outsidePageRank

\* D_inv = 1.0 / A.sum(axis=1); D_inv = np.diagflat(D_inv)
BuildDinv ==
    /\ pc = "D_inv"
    /\ D_inv' = DInv(A, n)
    /\ pc' = "P"
    /\ UNCHANGED <<n, G, A, P, P_s, pr_alpha, pr, alpha, PP_s, err>>
    /\ UNCHANGED outsidePageRank

\* variant: D_inv @ A, the row-normalised matrix
TransitionRowNormalised(X, Dinv, m) == MatMul(Dinv, AsFloat(X, m), m)

\* A @ D_inv
Transition(X, Dinv, m) == MatMul(AsFloat(X, m), Dinv, m)

\* P = A @ D_inv
BuildP ==
    /\ pc = "P"
    /\ P' = Transition(A, D_inv, n)
    /\ pc' = "P_s"
    /\ UNCHANGED <<n, G, A, D_inv, P_s, pr_alpha, pr, alpha, PP_s, err>>
    /\ UNCHANGED outsidePageRank

\* ------------------------------------------- numpy.linalg.matrix_power
\* what numpy.linalg.inv reports for a singular matrix (LinAlgError)
Singular == "Singular matrix"

\* least common multiple of the positive integers a and b
LCM(a, b) == (a \div GCD(a, b)) * b

RECURSIVE ColumnDen(_, _, _)
\* the least common denominator of the first k entries of column j of X
ColumnDen(X, j, k) == IF k = 0 THEN 1 ELSE LCM(ColumnDen(X, j, k - 1), X[k][j][2])

\* X without row r and column c
Minor(X, r, c, m) ==
    Tup([i \in 1..(m - 1) |-> Tup([j \in 1..(m - 1) |->
        X[IF i < r THEN i ELSE i + 1][IF j < c THEN j ELSE j + 1]])])

RECURSIVE Det(_, _)
\* determinant of the m x m integer matrix X, expanded along its first row
Det(X, m) ==
    IF m = 0 THEN 1
    ELSE IF m = 1 THEN X[1][1]
    ELSE IntSumTo([j \in Nodes(m) |->
            IF X[1][j] = 0 THEN 0
            ELSE (IF j % 2 = 1 THEN 1 ELSE -1) * X[1][j] * Det(Minor(X, 1, j, m), m - 1)], m)

\* the exact inverse of the finite matrix X, or Singular: column j of X is
\* K[.][j] / c[j] with K an integer matrix, so X^-1 = diag(c) adj(K) / det(K)
ExactInverse(X, m) ==
    LET c == Tup([j \in Nodes(m) |-> ColumnDen(X, j, m)])
        K == Tup([i \in Nodes(m) |-> Tup([j \in Nodes(m) |->
                 X[i][j][1] * (c[j] \div X[i][j][2])])])
        d == Det(K, m)
    IN  IF d = 0 THEN Singular
        ELSE Tup([i \in Nodes(m) |-> Tup([j \in Nodes(m) |->
                 LET cof == (IF (i + j) % 2 = 0 THEN 1 ELSE -1) * Det(Minor(K, j, i, m), m - 1)
                 IN  IF d > 0 THEN Norm(c[i] * cof, d) ELSE Norm(-(c[i] * cof), -d)])])

\* numpy.linalg.inv(X): the inverse, Singular when the factorisation meets
\* an exactly zero pivot; a nan in X makes no pivot zero and the result nan
inv(X, m) ==
    IF ~AllFinite(X, m) THEN NaNMatrix(m)
    ELSE ExactInverse(X, m)

RECURSIVE PowerLoopNoSquare(_, _, _, _, _)
\* variant: z is never squared
PowerLoopNoSquare(a, z, result, k, m) ==
    IF k = 0 THEN result
    ELSE LET r2 == IF k % 2 = 1
                   THEN (IF result = None THEN a ELSE FixMatMul(result, a, m))
                   ELSE result
         IN  PowerLoopNoSquare(a, a, r2, k \div 2, m)

RECURSIVE PowerLoop(_, _, _, _, _)
\* matrix_power's binary decomposition of the exponent k
PowerLoop(a, z, result, k, m) ==
    IF k = 0 THEN result
    ELSE LET z2 == IF z = None THEN a ELSE FixMatMul(z, z, m)
             r2 == IF k % 2 = 1
                   THEN (IF result = None THEN z2 ELSE FixMatMul(result, z2, m))
                   ELSE result
         IN  PowerLoop(a, z2, r2, k \div 2, m)

\* variant: one multiplication too many
PositivePowerOffByOne(a, k, m) == PowerLoop(a, None, None, k + 1, m)

\* a^k on mantissas for k >= 2
PositivePower(a, k, m) ==
    IF k = 2 THEN FixMatMul(a, a, m)
    ELSE IF k = 3 THEN FixMatMul(FixMatMul(a, a, m), a, m)
    ELSE PowerLoop(a, None, None, k, m)

RECURSIVE mp(_, _, _)
\* numpy.linalg.matrix_power(X, k); a nan column of X spreads to every
\* entry of a product
mp(X, k, m) ==
    IF k = 0 THEN Identity(m)
    ELSE IF k < 0
         THEN LET a == inv(X, m) IN IF a = Singular THEN Singular ELSE mp(a, -k, m)
    ELSE IF k = 1 THEN X
    ELSE IF ~AllFinite(X, m) THEN NaNMatrix(m)
    ELSE UnfixMat(PositivePower(FixMat(X, m), k, m), m)

\* P_s = mp(P, 100)
StationaryPower ==
    /\ pc = "P_s"
    /\ P_s' = mp(P, 100, n)
    /\ pc' = "pagerank"
    /\ UNCHANGED <<n, G, A, D_inv, P, pr_alpha, pr, alpha, PP_s, err>>
    /\ UNCHANGED outsidePageRank

\* ----------------------------------------------------------- nx.pagerank
\* what pagerank reports when the iteration does not settle
Failed == "PowerIterationFailedConvergence"

\* pagerank's max_iter
MaxIter == 100

\* the unit of the mantissas inside pagerank is 1/PrPrec: the iterate carries
\* guard digits beyond the 1/Prec of the values the cells show
PrPrec == 1000000

\* pagerank's tol (1.0e-06 against float64's roundoff), in units of 1/PrPrec:
\* the sweeps stop when the total change is below ten units per node, which
\* is above the rounding of a sweep as 1.0e-06 is above float64's
TolFix == 10

\* the damping factors pagerank is called with: the notebook's 1.0 and the
\* library's default 0.85
PrAlphas == {<<1, 1>>, <<17, 20>>}

RECURSIVE DegLCM(_, _)
\* the least common multiple of the non-zero degrees d[1..k]
DegLCM(d, k) ==
    IF k = 0 THEN 1 ELSE LCM(IF d[k] = 0 THEN 1 ELSE d[k], DegLCM(d, k - 1))

\* the row-normalised adjacency matrix (S[S != 0] = 1.0 / S[S != 0];
\* A = Q @ A), every entry as a whole multiple of 1/DegLCM: the row of a
\* node without edges stays zero
Stochastic(X, m) ==
    LET d == RowSums(X, m)
        lcm == DegLCM(d, m)
    IN  Tup([j \in Nodes(m) |-> Tup([i \in Nodes(m) |->
            IF d[j] = 0 THEN 0 ELSE X[j][i] * (lcm \div d[j])])])

\* variant: alpha weighs the teleport and 1 - alpha the walk
PrStepSwapped(W, X, x, a, m) ==
    LET lcm    == DegLCM(RowSums(X, m), m)
        dang == IntSumTo([j \in Nodes(m) |-> IF RowSums(X, m)[j] = 0 THEN x[j] ELSE 0], m)
        y(i) == IntSumTo([j \in Nodes(m) |-> x[j] * W[j][i]], m)
        den  == a[2] * m * lcm
    IN  Tup([i \in Nodes(m) |->
            ((a[2] - a[1]) * (m * y(i) + lcm * dang) + lcm * a[1] * PrPrec + den \div 2)
                \div den])

\* one sweep on mantissas, rounded once:
\* x = alpha * (x @ A + sum(x[is_dangling]) * dangling_weights) + (1 - alpha) * p
\* with p = dangling_weights = 1/N
PrStep(W, X, x, a, m) ==
    LET lcm    == DegLCM(RowSums(X, m), m)
        dang == IntSumTo([j \in Nodes(m) |-> IF RowSums(X, m)[j] = 0 THEN x[j] ELSE 0], m)
        y(i) == IntSumTo([j \in Nodes(m) |-> x[j] * W[j][i]], m)
        den  == a[2] * m * lcm
    IN  Tup([i \in Nodes(m) |->
            (a[1] * (m * y(i) + lcm * dang) + lcm * (a[2] - a[1]) * PrPrec + den \div 2)
                \div den])

\* err = np.absolute(x - xlast).sum()
L1Diff(x, y, m) == IntSumTo([i \in Nodes(m) |-> Abs(x[i] - y[i])], m)

\* one pass of the loop body: the sweep, then the test err < N * tol
Sweep(W, X, st, a, m) ==
    IF st.done THEN st
    ELSE LET x2 == PrStep(W, X, st.x, a, m)
         IN  [x |-> x2, done |-> L1Diff(x2, st.x, m) < m * TolFix]

RECURSIVE PrIterate(_, _, _, _, _, _)
\* k passes of for _ in range(max_iter), stopping at the first return
PrIterate(W, X, st, a, m, k) ==
    IF k = 0 \/ st.done THEN st
    ELSE IF k = 1 THEN Sweep(W, X, st, a, m)
    ELSE LET half == PrIterate(W, X, st, a, m, k \div 2)
         IN  IF half.done THEN half
             ELSE PrIterate(W, X, half, a, m, k - k \div 2)

\* nx.pagerank(G, alpha=a) for the graph with adjacency matrix X: started
\* from x = 1/N, PowerIterationFailedConvergence after max_iter sweeps; the
\* vector returned is rounded to 1/Prec
pagerank(X, a, m) ==
    LET x0 == Tup([i \in Nodes(m) |-> (2 * PrPrec + m) \div (2 * m)])
        r  == PrIterate(Stochastic(X, m), X, [x |-> x0, done |-> FALSE], a, m, MaxIter)
    IN  IF r.done
        THEN Tup([i \in Nodes(m) |-> FromFix(RoundInt(<<r.x[i], PrPrec \div Prec>>))])
        ELSE Failed

\* nx.pagerank(G, alpha=1.0)
PageRank ==
    /\ pc = "pagerank"
    /\ \E a \in PrAlphas :
          /\ pr_alpha' = a
          /\ LET r == pagerank(A, a, n)
             IN  IF r = Failed
                 THEN /\ err' = Failed
                      /\ pc' = "error"
                      /\ pr' = pr
                 ELSE /\ pr' = r
                      /\ pc' = "alpha"
                      /\ err' = err
    /\ UNCHANGED <<n, G, A, D_inv, P, P_s, alpha, PP_s>>
    /\ UNCHANGED outsidePageRank

\* ------------------------------------------------- Personalised PageRank
\* the values the teleport probability alpha is set to: the notebook's 0.1,
\* the ends 0 and 1 of its range and a value beyond it
AlphaChoices == {<<0, 1>>, <<1, 10>>, <<1, 1>>, <<3, 2>>}

\* alpha = 0.1; I = np.identity(5)
SetAlpha ==
    /\ pc = "alpha"
    /\ \E a \in AlphaChoices : alpha' = a
    /\ pc' = "PP_s"
    /\ UNCHANGED <<n, G, A, D_inv, P, P_s, pr_alpha, pr, PP_s, err>>
    /\ UNCHANGED outsidePageRank

\* variant: the factor 1 - alpha left out
SystemNoTeleport(a, X, m) == MatSub(Identity(m), X, m)

\* I - (1 - alpha) * P
System(a, X, m) == MatSub(Identity(m), Scale(Sub(One, a), X, m), m)

\* a magnitude far beyond every entry of a well-conditioned inverse
Huge == <<100000000, 1>>

\* what LAPACK may return instead of reporting an exactly singular matrix,
\* when rounding leaves a tiny non-zero pivot: entries of huge magnitude
Garbage(m) == Tup([i \in Nodes(m) |-> Tup([j \in Nodes(m) |-> Huge])])

\* variant: the inverse without the factor alpha
PPRUnscaled(a, R, m) == R

\* variant: teleporting to a uniformly drawn node, every column the average
PPRUniformTeleport(a, R, m) ==
    Tup([i \in Nodes(m) |-> Tup([j \in Nodes(m) |->
        Mul(a, Div(SumTo(R[i], m), FromInt(m)))])])

\* alpha * R, R being mp(I - (1 - alpha) * P, -1)
PPR(a, R, m) == Scale(a, R, m)

\* variant: alpha is checked against (0, 1] before anything is computed
ClosedFormValidated(a, X, m) ==
    IF ~(Less(Zero, a) /\ Leq(a, One))
    THEN [error |-> "InvalidDampingFactorError", value |-> None]
    ELSE LET R == mp(System(a, X, m), -1, m)
         IN  IF R = Singular THEN [error |-> "LinAlgError", value |-> None]
             ELSE [error |-> "none", value |-> PPR(a, R, m)]

\* alpha * mp((I - (1 - alpha) * P), -1): the value, or the exception that
\* ends the cell
ClosedForm(a, X, m) ==
    LET R == mp(System(a, X, m), -1, m)
    IN  IF R = Singular THEN [error |-> "LinAlgError", value |-> None]
        ELSE [error |-> "none", value |-> PPR(a, R, m)]

\* PP_s = alpha * mp((I - (1 - alpha) * P), -1)
PersonalisedPageRank ==
    /\ pc = "PP_s"
    /\ LET r == ClosedForm(alpha, P, n)
       IN  IF r.error = "none"
           THEN /\ PP_s' = r.value
                /\ pc' = "done"
                /\ err' = err
           ELSE \/ /\ err' = r.error
                   /\ pc' = "error"
                   /\ PP_s' = PP_s
                \/ /\ r.error = "LinAlgError"
                   /\ PP_s' = PPR(alpha, Garbage(n), n)
                   /\ pc' = "done"
                   /\ err' = err
    /\ UNCHANGED <<n, G, A, D_inv, P, P_s, pr_alpha, pr, alpha>>
    /\ UNCHANGED outsidePageRank

NextMatrix == LoadMatrix \/ BuildDinv \/ BuildP

SpecMatrix == Init /\ [][NextMatrix]_vars

Next ==
    \/ GenerateGraph
    \/ AdjacencyMatrix
    \/ BuildDinv
    \/ BuildP
    \/ StationaryPower
    \/ PageRank
    \/ SetAlpha
    \/ PersonalisedPageRank

Spec == Init /\ [][Next]_vars

\* ------------------------------------------------------------ properties
\* the transition matrix has been built
Built == pc \notin {"G", "A", "D_inv", "P"}

Symmetric(X, m) == \A i, j \in Nodes(m) : X[i][j] = X[j][i]

PositiveDegrees(X, m) == \A i \in Nodes(m) : RowSums(X, m)[i] > 0

\* the entries of column j of X add up to 1
ColumnSumsToOne(X, j, m) == SumTo(Col(X, j, m), m) = One

ColumnStochastic(X, m) ==
    /\ AllFinite(X, m)
    /\ \A i, j \in Nodes(m) : Leq(Zero, X[i][j])
    /\ \A j \in Nodes(m) : ColumnSumsToOne(X, j, m)

\* C1 as stated: for every adjacency matrix with non-negative entries and
\* all degrees (row sums) > 0, every column of P = A.D^-1 sums to 1.
C1_AnyMatrixColumnsSumToOne ==
    (Built /\ PositiveDegrees(A, n)) =>
        \A j \in Nodes(n) : ColumnSumsToOne(P, j, n)

\* C1 amended: for every SYMMETRIC adjacency matrix (undirected graph) with
\* non-negative entries and all degrees > 0, every column of P = A.D^-1,
\* D = diag(row sums of A), sums to 1.
C1_SymmetricColumnsSumToOne ==
    (Built /\ PositiveDegrees(A, n) /\ Symmetric(A, n)) =>
        \A j \in Nodes(n) : ColumnSumsToOne(P, j, n)

C1_Witness ==
    /\ Built
    /\ n = 2
    /\ A[1][1] = 1 /\ A[1][2] = 2 /\ A[2][1] = 2 /\ A[2][2] = 0
    /\ P[1][1] = <<1, 3>> /\ P[2][1] = <<2, 3>>

\* some node has no edge
HasIsolated == \E i \in Nodes(n) : RowSums(A, n)[i] = 0

PPRRan == pc = "done" \/ err = "LinAlgError"

\* 0 < alpha < 1
AlphaInside == alpha # None /\ Less(Zero, alpha) /\ Less(alpha, One)

\* the vector v is a probability distribution
Probability(x, m) ==
    /\ \A i \in Nodes(m) : IsFinite(x[i]) /\ Leq(Zero, x[i])
    /\ SumTo(x, m) = One

\* C3: with alpha in (0,1) and P column-stochastic, every column of
\* PP_s = alpha (I - (1 - alpha) P)^-1 is a probability vector: all entries
\* non-negative, entries summing to 1, whatever the restart node x.
C3_PPRColumnsAreProbabilities ==
    (PPRRan /\ AlphaInside /\ ColumnStochastic(P, n)) =>
        /\ pc = "done"
        /\ \A x \in Nodes(n) : Probability(Col(PP_s, x, n), n)

C3_Witness ==
    /\ pc = "done"
    /\ n = 4
    /\ G = {<<1, 2>>, <<1, 3>>, <<2, 3>>, <<3, 4>>}
    /\ alpha = <<1, 10>>
    /\ Less(Zero, PP_s[4][1]) /\ Less(PP_s[4][1], PP_s[3][1])

\* sum of |X[i][j]| over the entries of column j off the diagonal
OffColumn(X, j, m) ==
    SumTo([i \in Nodes(m) |-> IF i = j THEN Zero ELSE AbsF(X[i][j])], m)

\* sum of |X[i][j]| over the entries of row i off the diagonal
OffRow(X, i, m) ==
    SumTo([j \in Nodes(m) |-> IF i = j THEN Zero ELSE AbsF(X[i][j])], m)

ColumnDominant(X, m) == \A j \in Nodes(m) : Less(OffColumn(X, j, m), AbsF(X[j][j]))

RowDominant(X, m) == \A i \in Nodes(m) : Less(OffRow(X, i, m), AbsF(X[i][i]))

\* C4 as stated, "strictly diagonally dominant" in its usual, row-wise
\* sense: in every row of I - (1 - alpha) P the diagonal entry exceeds the
\* sum of the magnitudes of the others.
C4_RowDominantUniqueSolution ==
    (PPRRan /\ AlphaInside /\ ColumnStochastic(P, n)) =>
        /\ RowDominant(System(alpha, P, n), n)
        /\ pc = "done"
        /\ MatMul(System(alpha, P, n), PP_s, n) = Scale(alpha, Identity(n), n)
        /\ MatMul(PP_s, System(alpha, P, n), n) = Scale(alpha, Identity(n), n)

\* C4 amended: with alpha in (0,1) and P column-stochastic, I - (1 - alpha) P
\* is strictly diagonally dominant by COLUMNS, hence invertible: the solve
\* succeeds and PP_s / alpha is its two-sided inverse, so column x of PP_s is
\* the one solution of (I - (1 - alpha) P) pi = alpha i_x.
C4_ColumnDominantUniqueSolution ==
    (PPRRan /\ AlphaInside /\ ColumnStochastic(P, n)) =>
        /\ ColumnDominant(System(alpha, P, n), n)
        /\ pc = "done"
        /\ MatMul(System(alpha, P, n), PP_s, n) = Scale(alpha, Identity(n), n)
        /\ MatMul(PP_s, System(alpha, P, n), n) = Scale(alpha, Identity(n), n)

C4_Witness ==
    /\ pc = "done"
    /\ n = 3
    /\ G = {<<1, 2>>, <<2, 3>>}
    /\ alpha = <<1, 10>>
    /\ ~RowDominant(System(alpha, P, n), n)
    /\ ColumnDominant(System(alpha, P, n), n)

\* alpha lies in (0, 1]
AlphaValid == Less(Zero, alpha) /\ Leq(alpha, One)

\* C5 as stated: alpha outside (0,1], alpha = 0 in particular, is rejected
\* with InvalidDampingFactorError and yields no result.
C5_InvalidAlphaRejected ==
    (PPRRan /\ ~AlphaValid) => (err = "InvalidDampingFactorError" /\ PP_s = None)

ZeroMatrix(m) == Tup([i \in Nodes(m) |-> Tup([j \in Nodes(m) |-> Zero])])

\* C5 amended: alpha is never checked and InvalidDampingFactorError is never
\* raised.  With P column-stochastic, alpha = 0 makes I - P singular, so the
\* cell ends in the inversion's own LinAlgError or, when rounding hides the
\* zero pivot, in a PP_s none of whose columns is a probability vector;
\* alpha = 1.5 is accepted like any other value and PP_s = 1.5 (I + P/2)^-1
\* is produced.
C5_AlphaNeverValidated ==
    /\ err # "InvalidDampingFactorError"
    /\ (PPRRan /\ ColumnStochastic(P, n) /\ alpha = Zero) =>
          \/ err = "LinAlgError" /\ PP_s = None
          \/ pc = "done" /\ \A x \in Nodes(n) : ~Probability(Col(PP_s, x, n), n)
    /\ (PPRRan /\ ColumnStochastic(P, n) /\ alpha = <<3, 2>>) =>
          /\ pc = "done"
          /\ MatMul(System(alpha, P, n), PP_s, n) = Scale(alpha, Identity(n), n)

C5_Witness ==
    /\ err = "LinAlgError"
    /\ alpha = Zero
    /\ ColumnStochastic(P, n)
    /\ n = 4
    /\ PP_s = None

\* C6: the Personalised PageRank output depends on the restart node: the
\* columns of PP_s for two distinct nodes x, y are different vectors
\* (whenever P is finite and alpha is not 0).
C6_ColumnsDiffer ==
    (pc = "done" /\ AllFinite(P, n) /\ alpha # Zero) =>
        \A x, y \in Nodes(n) : x # y => Col(PP_s, x, n) # Col(PP_s, y, n)

C6_Witness ==
    /\ pc = "done"
    /\ n = 4
    /\ G = {<<1, 2>>, <<2, 3>>, <<3, 4>>, <<1, 4>>}
    /\ alpha = <<1, 10>>
    /\ PP_s[1][1] # PP_s[1][3]

\* ------------------------------------------------ stationary distribution
\* the cell computing P_s has just run (the later cells leave P and P_s alone)
PowerRan == pc = "pagerank"

\* the tolerance within which two rounded results count as equal
Tol == <<1, 100>>

Close(x, y) == IsFinite(x) /\ IsFinite(y) /\ Leq(AbsF(Sub(x, y)), Tol)

CloseVec(x, y, m) == \A i \in Nodes(m) : Close(x[i], y[i])

CloseMat(X, Y, m) == \A i, j \in Nodes(m) : Close(X[i][j], Y[i][j])

\* X @ v
MatVec(X, x, m) == Tup([i \in Nodes(m) |-> SumTo([k \in Nodes(m) |-> Mul(X[i][k], x[k])], m)])

\* i = np.zeros((m,1)); i[x, 0] = 1
Indicator(x, m) == Tup([i \in Nodes(m) |-> IF i = x THEN One ELSE Zero])

RECURSIVE Reach(_, _, _)
\* the nodes joined to a node of S by a path
Reach(X, S, m) ==
    LET S2 == S \cup {j \in Nodes(m) : \E i \in S : X[i][j] > 0}
    IN  IF S2 = S THEN S ELSE Reach(X, S2, m)

\* the chain is irreducible
Connected(X, m) == Reach(X, {1}, m) = Nodes(m)

\* the chain has period 2
Bipartite(X, m) ==
    \E S \in SUBSET Nodes(m) : \A i, j \in Nodes(m) : X[i][j] > 0 => ((i \in S) # (j \in S))

Ergodic(X, m) == PositiveDegrees(X, m) /\ Connected(X, m) /\ ~Bipartite(X, m)

\* 2 |E|
TwiceEdges(X, m) == IntSumTo(RowSums(X, m), m)

\* P_s @ i for every starting node x, the indicator vector i of x
Walks(X, m) == Tup([x \in Nodes(m) |-> MatVec(X, Indicator(x, m), m)])

\* pi_v = deg(v) / (2 |E|)
DegreePi(X, m) == Tup([u \in Nodes(m) |-> Norm(RowSums(X, m)[u], TwiceEdges(X, m))])

\* C7: on an undirected graph (all degrees > 0, so that P exists) the vector
\* pi_v = deg(v) / (2|E|) is non-negative, sums to 1 and satisfies pi = P pi;
\* and it is what the notebook reads off P_s: when the chain is irreducible
\* and aperiodic every column of P_s equals it up to rounding.
C7_DegreeStationary ==
    /\ (Built /\ PositiveDegrees(A, n)) =>
          /\ Probability(DegreePi(A, n), n)
          /\ MatVec(P, DegreePi(A, n), n) = DegreePi(A, n)
    /\ (PowerRan /\ Ergodic(A, n)) =>
          LET walks == Walks(P_s, n)
              d == DegreePi(A, n)
          IN  \A x \in Nodes(n) : CloseVec(walks[x], d, n)

C7_Witness ==
    /\ pc = "pagerank"
    /\ n = 4
    /\ G = {<<1, 2>>, <<1, 3>>, <<2, 3>>, <<3, 4>>}
    /\ DegreePi(A, n) = <<<<1, 4>>, <<1, 4>>, <<3, 8>>, <<1, 8>>>>
    /\ Close(P_s[3][4], <<3, 8>>)

\* C8: when the chain is irreducible and aperiodic the powers of P have
\* stabilised at P_s = P^100: P^101 and P^102 equal P_s and all columns of
\* P_s are identical (up to rounding), so P_s i_x is the same for every
\* starting node x.
C8_PowersStabilise ==
    (PowerRan /\ Ergodic(A, n)) =>
        /\ CloseMat(mp(P, 101, n), P_s, n)
        /\ CloseMat(mp(P, 102, n), P_s, n)
        /\ LET walks == Walks(P_s, n)
           IN  \A x, y \in Nodes(n) : CloseVec(walks[x], walks[y], n)

C8_Witness ==
    /\ pc = "pagerank"
    /\ n = 4
    /\ G = {<<1, 2>>, <<1, 3>>, <<2, 3>>, <<3, 4>>}
    /\ Close(P_s[3][1], P_s[3][4])
    /\ P[3][1] = <<1, 2>> /\ P[3][4] = One

\* the powers of P are still moving at the end of the budget
NotStabilised == ~CloseMat(mp(P, 101, n), mp(P, 100, n), n)

\* C9 as stated: when the powers have not stabilised within the budget the
\* solver ends with NonConvergenceError and returns no stationary distribution.
C9_NonConvergenceRaises ==
    (PowerRan /\ NotStabilised) => (err = "NonConvergenceError" /\ P_s = None)

\* C9 amended: mp(P, 100) runs no convergence test: P_s is always assigned
\* P^100 and nothing is raised, also when the powers have not stabilised.  On
\* a connected bipartite graph P^100 and P^101 differ on the diagonal and the
\* columns of two adjacent nodes of P_s differ, and the cell still ends
\* without error.
C9_PowerNeverRaises ==
    PowerRan =>
        /\ P_s # None
        /\ err = "none"
        /\ (n >= 2 /\ Connected(A, n) /\ Bipartite(A, n)) =>
              /\ NotStabilised
              /\ \A i, j \in Nodes(n) : A[i][j] > 0 =>
                    /\ P_s[i][j] = Zero
                    /\ Less(Zero, P_s[i][i])
                    /\ mp(P, 101, n)[i][i] = Zero

C9_Witness ==
    /\ pc = "pagerank"
    /\ err = "none"
    /\ n = 3
    /\ G = {<<1, 2>>, <<2, 3>>}
    /\ NotStabilised
    /\ P_s[1][1] = <<1, 2>> /\ P_s[1][2] = Zero

\* the cell calling nx.pagerank has just returned a vector (the later cells
\* leave pr alone)
PageRankRan == pc = "alpha" /\ pr # None

\* alpha P v + (1 - alpha) (1/m) 1
Damped(a, X, x, m) ==
    Tup([i \in Nodes(m) |->
        Add(Mul(a, MatVec(X, x, m)[i]), Mul(Sub(One, a), <<1, m>>))])

\* C10 as stated: the vector pagerank returns solves
\* pi = (1 - alpha) P pi + alpha (1/n) 1 (up to rounding).
C10_TeleportWeightedByAlpha ==
    (PageRankRan /\ PositiveDegrees(A, n)) =>
        CloseVec(pr, Damped(Sub(One, pr_alpha), P, pr, n), n)

\* C10 amended: the vector pagerank returns solves
\* pi = alpha P pi + (1 - alpha) (1/n) 1, alpha weighing the walk as in
\* networkx; with alpha = 1 it is a stationary distribution of P, on a
\* connected graph deg(v) / (2|E|), the vector every column of P_s = P^100
\* shows when the chain is also aperiodic (all up to rounding).
C10_WalkWeightedByAlpha ==
    (PageRankRan /\ PositiveDegrees(A, n)) =>
        /\ CloseVec(pr, Damped(pr_alpha, P, pr, n), n)
        /\ (pr_alpha = One) => CloseVec(pr, MatVec(P, pr, n), n)
        /\ (pr_alpha = One /\ Connected(A, n)) => CloseVec(pr, DegreePi(A, n), n)
        /\ (pr_alpha = One /\ Ergodic(A, n)) =>
              \A x \in Nodes(n) : CloseVec(pr, Col(P_s, x, n), n)

C10_Witness ==
    /\ pc = "alpha"
    /\ pr_alpha = One
    /\ n = 4
    /\ G = {<<1, 2>>, <<1, 3>>, <<2, 3>>, <<3, 4>>}
    /\ Close(pr[3], <<3, 8>>) /\ Close(pr[4], <<1, 8>>)
    /\ Close(P_s[3][1], pr[3])

\* ------------------------------------------------- the complete 3-node graph
\* adjacency_matrix = [[0,1,1],[1,0,1],[1,1,0]]
K3 == <<<<0, 1, 1>>, <<1, 0, 1>>, <<1, 1, 0>>>>

\* C11: for the 3-node fully connected unweighted graph A is
\* [[0,1,1],[1,0,1],[1,1,0]], D_inv = diag(1/2), P = A/2, and under alpha = 1 the stationary distribution is
\* [1/3, 1/3, 1/3] from every starting node: [1/3,1/3,1/3] is a fixed point
\* of P, P_s @ i_x shows it for every x and pagerank(alpha = 1) returns it
\* (up to rounding).
C11_CompleteGraphUniform ==
    (Built /\ n = 3 /\ G = Pairs(3)) =>
        /\ A = K3
        /\ D_inv = Diagflat(<<<<1, 2>>, <<1, 2>>, <<1, 2>>>>, 3)
        /\ \A i, j \in Nodes(3) : P[i][j] = Norm(K3[i][j], 2)
        /\ MatVec(P, <<<<1, 3>>, <<1, 3>>, <<1, 3>>>>, 3) = <<<<1, 3>>, <<1, 3>>, <<1, 3>>>>
        /\ PowerRan =>
              \A x \in Nodes(3) :
                  CloseVec(Walks(P_s, 3)[x], <<<<1, 3>>, <<1, 3>>, <<1, 3>>>>, 3)
        /\ (pc = "alpha" /\ pr_alpha = One) =>
              CloseVec(pr, <<<<1, 3>>, <<1, 3>>, <<1, 3>>>>, 3)

C11_Witness ==
    /\ pc = "alpha"
    /\ pr_alpha = One
    /\ n = 3
    /\ G = Pairs(3)
    /\ P[1][2] = <<1, 2>>
    /\ Close(P_s[1][1], <<1, 3>>)
    /\ Close(pr[2], <<1, 3>>)

\* ======================================================================
\* Laplacian Eigenmaps: the matrices

\* D = np.diag(A.sum(axis=1))
Degree(X, m) ==
    Tup([i \in Nodes(m) |-> Tup([j \in Nodes(m) |-> IF i = j THEN RowSums(X, m)[i] ELSE 0])])

\* variant: the signless Laplacian D + A
LaplacianSignless(Dg, X, m) ==
    Tup([i \in Nodes(m) |-> Tup([j \in Nodes(m) |-> Dg[i][j] + X[i][j]])])

\* variant: A - D
LaplacianNegated(Dg, X, m) ==
    Tup([i \in Nodes(m) |-> Tup([j \in Nodes(m) |-> X[i][j] - Dg[i][j]])])

\* L = D - A
Laplacian(Dg, X, m) ==
    Tup([i \in Nodes(m) |-> Tup([j \in Nodes(m) |-> Dg[i][j] - X[i][j]])])

\* X @ x on whole numbers
IntMatVec(X, x, m) == Tup([i \in Nodes(m) |-> IntSumTo([k \in Nodes(m) |-> X[i][k] * x[k]], m)])

\* ---------------------------------------------------------- np.linalg.eig
\* the whole-number vectors among which eigenvector directions are looked
\* for (np.linalg.eig returns them scaled to unit length)
EigBox == -3 .. 3

\* the first non-zero position of x
Lead(x, m) == CHOOSE i \in Nodes(m) : x[i] # 0 /\ \A j \in 1..(i - 1) : x[j] = 0

RECURSIVE Dot(_, _, _)
\* the inner product of the first k entries of r and x
Dot(r, x, k) == IF k = 0 THEN 0 ELSE r[k] * x[k] + Dot(r, x, k - 1)

\* the directions x # 0 with X x = lambda x, one of x and -x each
EigenVectors(X, lambda, m) ==
    {x \in [Nodes(m) -> EigBox] :
        /\ \A i \in Nodes(m) : Dot(X[i], x, m) = lambda * x[i]
        /\ \E i \in Nodes(m) : x[i] > 0 /\ \A j \in 1..(i - 1) : x[j] = 0}

RECURSIVE BasisFrom(_, _, _)
\* a basis of the span of S in echelon form: one vector per leading position
\* p..m that occurs in S
BasisFrom(S, p, m) ==
    IF p > m THEN <<>>
    ELSE (IF \E x \in S : Lead(x, m) = p
          THEN <<Tup(CHOOSE x \in S : Lead(x, m) = p)>>
          ELSE <<>>) \o BasisFrom(S, p + 1, m)

RECURSIVE EigPairsFrom(_, _, _)
\* the eigenpairs with eigenvalue in lambda..m (the Laplacian of a simple
\* graph on m nodes has its eigenvalues in 0..m), eigenvalues ascending
EigPairsFrom(X, lambda, m) ==
    IF lambda > m THEN <<>>
    ELSE LET basis == BasisFrom(EigenVectors(X, lambda, m), 1, m)
         IN  [k \in 1..Len(basis) |-> [val |-> lambda, vec |-> basis[k]]]
                 \o EigPairsFrom(X, lambda + 1, m)

EigPairs(X, m) == EigPairsFrom(X, 0, m)

\* X has m independent eigenvectors with whole eigenvalues
HasIntegerSpectrum(X, m) == Len(EigPairs(X, m)) = m

\* the orders in which the m eigenpairs may come back
Perms(m) == {p \in [Nodes(m) -> Nodes(m)] : \A i, j \in Nodes(m) : p[i] = p[j] => i = j}

\* w, v = np.linalg.eig(X): the eigenpairs in the order p, the eigenvalues
\* in w and the eigenvectors as the columns of v
eig(pairs, p, m) ==
    [w |-> Tup([j \in Nodes(m) |-> <<pairs[p[j]].val, 0>>]),
     v |-> Tup([i \in Nodes(m) |-> Tup([j \in Nodes(m) |-> <<pairs[p[j]].vec[i], 0>>])])]

\* np.real of a complex number
real(z) == z[1]

\* np.argsort(x): the positions of x from its smallest to its largest entry,
\* equal entries in their order of appearance (the insertion sort numpy uses
\* for short arrays)
argsort(x, m) ==
    LET rank(i) == 1 + Cardinality({j \in Nodes(m) : x[j] < x[i] \/ (x[j] = x[i] /\ j < i)})
    IN  Tup([r \in Nodes(m) |-> CHOOSE i \in Nodes(m) : rank(i) = r])

\* Python's s[a:b] on a sequence of length len, positions counted from 1 here:
\* the slice stops at the end of the sequence
Slice(s, a, b, len) == Tup([c \in 1..(IF b > len THEN len - a ELSE b - a) |-> s[a + c]])

\* ------------------------------------------------------------ the cells
\* largest number of nodes of g_nx
MaxLapNodes == 3

\* largest embedding_size
MaxEmbedding == 3

\* the notebook before its first cell
InitLaplacian ==
    /\ pc = "g_nx"
    /\ Fresh

\* g_nx = nx.read_edgelist(...): an undirected graph, here one whose
\* Laplacian has whole eigenvalues
ReadGraph ==
    /\ pc = "g_nx"
    /\ \E m \in 1..MaxLapNodes : \E E \in SUBSET Pairs(m) :
          /\ HasIntegerSpectrum(Laplacian(Degree(Adjacency(E, m), m), Adjacency(E, m), m), m)
          /\ n' = m
          /\ g_nx' = E
    /\ pc' = "lap_A"
    /\ UNCHANGED <<A, err, D, L, embedding_size, w, v, order, v_0, solver, runs, first>>
    /\ UNCHANGED outsideLaplacian

\* A = nx.to_numpy_array(g_nx)
ToNumpyArray ==
    /\ pc = "lap_A"
    /\ A' = Adjacency(g_nx, n)
    /\ pc' = "lap_D"
    /\ UNCHANGED <<n, err, g_nx, D, L, embedding_size, w, v, order, v_0, solver, runs, first>>
    /\ UNCHANGED outsideLaplacian

\* an arbitrary adjacency matrix with non-negative entries (directed,
\* weighted, self-loops allowed) handed to the Laplacian cells
LoadAdjacency ==
    /\ pc = "g_nx"
    /\ \E m \in 1..MaxDim : \E X \in [Nodes(m) -> [Nodes(m) -> 0..MaxWeight]] :
          /\ n' = m
          /\ A' = X
    /\ pc' = "lap_D"
    /\ UNCHANGED <<err, g_nx, D, L, embedding_size, w, v, order, v_0, solver, runs, first>>
    /\ UNCHANGED outsideLaplacian

\* D = np.diag(A.sum(axis=1))
DegreeMatrix ==
    /\ pc = "lap_D"
    /\ D' = Degree(A, n)
    /\ pc' = "lap_L"
    /\ UNCHANGED <<n, A, err, g_nx, L, embedding_size, w, v, order, v_0, solver, runs, first>>
    /\ UNCHANGED outsideLaplacian

\* L = D-A
BuildLaplacian ==
    /\ pc = "lap_L"
    /\ L' = Laplacian(D, A, n)
    /\ pc' = "embedding_size"
    /\ UNCHANGED <<n, A, err, g_nx, D, embedding_size, w, v, order, v_0, solver, runs, first>>
    /\ UNCHANGED outsideLaplacian

\* embedding_size = 32
SetEmbeddingSize ==
    /\ pc = "embedding_size"
    /\ \E k \in 1..MaxEmbedding : embedding_size' = k
    /\ pc' = "eig"
    /\ UNCHANGED <<n, A, err, g_nx, D, L, w, v, order, v_0, solver, runs, first>>
    /\ UNCHANGED outsideLaplacian

\* w, v = np.linalg.eig(L): the order of the eigenpairs is the solver's; its
\* answer to a given L is the same on every call, so it is worked out on the
\* first call and handed back on the next
Eig ==
    /\ pc = "eig"
    /\ IF runs = 0
       THEN \E pairs \in {EigPairs(L, n)} : \E p \in Perms(n) : solver' = eig(pairs, p, n)
       ELSE solver' = solver
    /\ w' = solver'.w
    /\ v' = solver'.v
    /\ pc' = "real"
    /\ UNCHANGED <<n, A, err, g_nx, D, L, embedding_size, order, v_0, runs, first>>
    /\ UNCHANGED outsideLaplacian

\* w = np.real(w); v = np.real(v)
Real ==
    /\ pc = "real"
    /\ w' = Tup([j \in Nodes(n) |-> real(w[j])])
    /\ v' = Tup([i \in Nodes(n) |-> Tup([j \in Nodes(n) |-> real(v[i][j])])])
    /\ pc' = "argsort"
    /\ UNCHANGED <<n, A, err, g_nx, D, L, embedding_size, order, v_0, solver, runs, first>>
    /\ UNCHANGED outsideLaplacian

\* variant: the columns taken from order[0:embedding_size], the first one
\* not ignored
SelectedFromFirst(ord, k, m) == Slice(ord, 0, k, m)

\* order[1:(embedding_size+1)]: the columns the embedding keeps
Selected(ord, k, m) == Slice(ord, 1, k + 1, m)

\* variant: the selection taken again from what the last run left, one more
\* leading column ignored per run
SortSelectCarried(x, V, k, m) ==
    LET ord  == argsort(x, m)
        cols == Slice(ord, 1 + runs, k + 1 + runs, m)
    IN  [order |-> ord,
         w     |-> Tup([r \in Nodes(m) |-> x[ord[r]]]),
         v_0   |-> Tup([i \in Nodes(m) |-> V[i][ord[1]]]),
         v     |-> Tup([i \in Nodes(m) |-> Tup([c \in 1..Len(cols) |-> V[i][cols[c]]])])]

\* order = np.argsort(w); w = w[order]; v_0 = v[:, order[0]];
\* v = v[:, order[1:(embedding_size+1)]]
SortSelect(x, V, k, m) ==
    LET ord  == argsort(x, m)
        cols == Selected(ord, k, m)
    IN  [order |-> ord,
         w     |-> Tup([r \in Nodes(m) |-> x[ord[r]]]),
         v_0   |-> Tup([i \in Nodes(m) |-> V[i][ord[1]]]),
         v     |-> Tup([i \in Nodes(m) |-> Tup([c \in 1..Len(cols) |-> V[i][cols[c]]])])]

\* the cell sorting the eigenvalues and choosing the embedding
SortAndSelect ==
    /\ pc = "argsort"
    /\ LET r == SortSelect(w, v, embedding_size, n)
       IN  /\ order' = r.order
           /\ w' = r.w
           /\ v_0' = r.v_0
           /\ v' = r.v
    /\ runs' = runs + 1
    /\ pc' = "embedded"
    /\ UNCHANGED <<n, A, err, g_nx, D, L, embedding_size, solver, first>>
    /\ UNCHANGED outsideLaplacian

\* the embedder run once more on the same L: what the first run left is
\* kept in first
Rerun ==
    /\ pc = "embedded"
    /\ runs = 1
    /\ first' = [w |-> w, order |-> order, v |-> v, v_0 |-> v_0]
    /\ pc' = "eig"
    /\ UNCHANGED <<n, A, err, g_nx, D, L, embedding_size, w, v, order, v_0, solver, runs>>
    /\ UNCHANGED outsideLaplacian

NextLapMatrix == LoadAdjacency \/ DegreeMatrix \/ BuildLaplacian

\* the Laplacian cells over arbitrary non-negative matrices
SpecLapMatrix == InitLaplacian /\ [][NextLapMatrix]_vars

NextLaplacian ==
    \/ ReadGraph
    \/ ToNumpyArray
    \/ DegreeMatrix
    \/ BuildLaplacian
    \/ SetEmbeddingSize
    \/ Eig
    \/ Real
    \/ SortAndSelect
    \/ Rerun

\* the Laplacian Eigenmaps notebook over undirected graphs
SpecLaplacian == InitLaplacian /\ [][NextLaplacian]_vars

\* ------------------------------------------------------ Laplacian claims
\* the cell computing L has just run (the later cells leave A, D and L alone)
LaplacianBuilt == pc = "embedding_size"

\* the all-ones vector and the zero vector
Ones(m) == Tup([i \in Nodes(m) |-> 1])

Zeros(m) == Tup([i \in Nodes(m) |-> 0])

\* C12: for every adjacency matrix A (directed, weighted and with self-loops
\* included) the Laplacian L = D - A, D = diag(row sums of A), satisfies
\* L 1 = 0: every row of L sums to 0.
C12_LaplacianAnnihilatesOnes ==
    LaplacianBuilt =>
        /\ \A i \in Nodes(n) : D[i][i] = RowSums(A, n)[i]
        /\ IntMatVec(L, Ones(n), n) = Zeros(n)
        /\ \A i \in Nodes(n) : IntSumTo(L[i], n) = 0

C12_Witness ==
    /\ LaplacianBuilt
    /\ n = 2
    /\ A = <<<<0, 1>>, <<2, 1>>>>
    /\ L = <<<<1, -1>>, <<-2, 2>>>>

\* x' X x on whole numbers
QuadraticForm(X, x, m) == IntSumTo([i \in Nodes(m) |-> x[i] * IntMatVec(X, x, m)[i]], m)

\* X[i][j] = X[j][i] for all i, j, and x' X x >= 0 for every vector x with
\* entries in EigBox
SymmetricPSD(X, m) ==
    /\ Symmetric(X, m)
    /\ \A x \in [Nodes(m) -> EigBox] : QuadraticForm(X, x, m) >= 0

\* C13 as stated: the Laplacian computed from the adjacency matrix of a graph,
\* directed or not, is symmetric and positive semidefinite.
C13_AnyLaplacianSymmetricPSD ==
    LaplacianBuilt => SymmetricPSD(L, n)

\* C13 amended: the Laplacian L = D - A computed from a SYMMETRIC adjacency
\* matrix with non-negative entries (an undirected graph, weights and
\* self-loops allowed) is symmetric and positive semidefinite; from the
\* adjacency matrix of a directed graph it is not symmetric.
C13_UndirectedLaplacianSymmetricPSD ==
    LaplacianBuilt =>
        /\ Symmetric(A, n) => SymmetricPSD(L, n)
        /\ ~Symmetric(A, n) => ~Symmetric(L, n)

C13_Witness ==
    /\ LaplacianBuilt
    /\ n = 2
    /\ A = <<<<1, 2>>, <<2, 0>>>>
    /\ L = <<<<2, -2>>, <<-2, 2>>>>
    /\ QuadraticForm(L, <<1, -1>>, n) = 8
    /\ QuadraticForm(L, <<1, 1>>, n) = 0

\* ------------------------------------------------- spectral embedder claims
\* the cell choosing the embedding has run
Embedded == pc = "embedded"

\* column c of the matrix V with m rows
Column(V, c, m) == Tup([i \in Nodes(m) |-> V[i][c]])

\* x is an eigenvector of X with eigenvalue lambda
IsEigenVector(X, x, lambda, m) ==
    /\ x # Zeros(m)
    /\ IntMatVec(X, x, m) = Tup([i \in Nodes(m) |-> lambda * x[i]])

\* w holds the eigenvalues np.linalg.eig returned, smallest first
SortedSpectrum ==
    /\ \A r \in Nodes(n) : w[r] = real(solver.w[order[r]])
    /\ \A r, s \in Nodes(n) : r < s => w[r] <= w[s]
    /\ \A i \in Nodes(n) : \E r \in Nodes(n) : order[r] = i

\* v has one row per node and cols columns, column c an eigenvector of the
\* (c+1)-th smallest eigenvalue
EmbeddingColumns(cols) ==
    /\ Len(v) = n
    /\ \A i \in Nodes(n) : Len(v[i]) = cols
    /\ \A c \in 1..cols : IsEigenVector(L, Column(v, c, n), w[c + 1], n)

\* C14 as stated: for every n and every embedding size k the embedder sorts
\* the eigenvalues ascending, discards the eigenvector of the smallest (zero)
\* eigenvalue and returns the eigenvectors of the next k eigenvalues as an
\* n x k matrix.
C14_AlwaysNByK ==
    Embedded =>
        /\ SortedSpectrum
        /\ w[1] = 0 /\ IsEigenVector(L, v_0, 0, n)
        /\ EmbeddingColumns(embedding_size)

\* C14 amended: the embedder sorts the eigenvalues ascending, sets aside in
\* v_0 the eigenvector of the smallest (zero) eigenvalue and keeps the
\* eigenvectors of the next eigenvalues in ascending order, one row per
\* node: k of them (an n x k matrix) when k <= n - 1, and only the n - 1
\* there are when k >= n.
C14_NByKUpToNMinusOne ==
    Embedded =>
        /\ SortedSpectrum
        /\ w[1] = 0 /\ IsEigenVector(L, v_0, 0, n)
        /\ embedding_size <= n - 1 => EmbeddingColumns(embedding_size)
        /\ embedding_size >= n => EmbeddingColumns(n - 1)

C14_Witness ==
    /\ Embedded
    /\ n = 3
    /\ g_nx = {<<1, 2>>, <<2, 3>>}
    /\ embedding_size = 2
    /\ solver.w = <<<<3, 0>>, <<0, 0>>, <<1, 0>>>>
    /\ order = <<2, 3, 1>>
    /\ w = <<0, 1, 3>>
    /\ Len(v[1]) = 2
    /\ IsEigenVector(L, Column(v, 2, n), 3, n)

\* the embedder has run twice on the same L
RanTwice == pc = "embedded" /\ runs = 2

\* x and y are the same vector up to its sign
SameUpToSign(x, y, m) == x = y \/ x = Tup([i \in Nodes(m) |-> -y[i]])

C16_BuilderLeavesInputUnchanged ==
    [][/\ pc = "D_inv" =>
             /\ A' = A /\ n' = n
             /\ D_inv' = Diagflat([i \in Nodes(n) |-> Div(One, FromInt(RowSums(A, n)[i]))], n)
       /\ pc = "P" =>
             /\ A' = A /\ n' = n /\ D_inv' = D_inv
             /\ P' = MatMul(AsFloat(A, n), D_inv, n)]_vars

C16_Witness ==
    /\ pc = "P_s"
    /\ n = 2
    /\ A = <<<<0, 2>>, <<1, 1>>>>
    /\ D_inv[1][1] = <<1, 2>>
    /\ P[1][2] = One /\ P[2][1] = <<1, 2>>

\* ======================================================================
\* The powers of the adjacency matrix (PageRank notebook, cells A @ A and
\* A @ A @ A)

\* the highest power of A displayed
MaxPower == 3

\* variant: the entrywise product
IntMatMulEntrywise(X, Y, m) ==
    Tup([i \in Nodes(m) |-> Tup([j \in Nodes(m) |-> X[i][j] * Y[i][j]])])

\* X @ Y on whole numbers
IntMatMul(X, Y, m) ==
    Tup([i \in Nodes(m) |-> Tup([j \in Nodes(m) |->
        IntSumTo([k \in Nodes(m) |-> X[i][k] * Y[k][j]], m)])])

\* A @ A
ShowSquare ==
    /\ pc = "D_inv"
    /\ power = 0
    /\ Out' = IntMatMul(A, A, n)
    /\ power' = 2
    /\ pc' = "A^n"
    /\ UNCHANGED <<n, A, err>>
    /\ UNCHANGED outsidePowers

\* A @ A @ A, and so on: one more factor A
ShowNextPower ==
    /\ pc = "A^n"
    /\ power < MaxPower
    /\ Out' = IntMatMul(Out, A, n)
    /\ power' = power + 1
    /\ UNCHANGED <<pc, n, A, err>>
    /\ UNCHANGED outsidePowers

NextPowers == GenerateGraph \/ AdjacencyMatrix \/ ShowSquare \/ ShowNextPower

\* the cells of the PageRank notebook up to the powers of A
SpecPowers == Init /\ [][NextPowers]_vars

\* the number of ways to go from i to j in k steps along edges of the graph
\* with adjacency matrix X: the node sequences i = s0, s1, ..., sk = j with
\* every s(t), s(t+1) joined by an edge
PathCount(X, i, j, k, m) ==
    Cardinality({s \in [0..k -> Nodes(m)] :
        /\ s[0] = i
        /\ s[k] = j
        /\ \A t \in 0..(k - 1) : X[s[t]][s[t + 1]] = 1})

\* C17: entry (i, j) of the n-th power of the adjacency matrix is the number
\* of paths (edge sequences) of length n between i and j, for the powers the
\* notebook displays and for A itself (n = 1).
C17_PowersCountPaths ==
    /\ pc = "D_inv" =>
          \A i, j \in Nodes(n) : A[i][j] = PathCount(A, i, j, 1, n)
    /\ pc = "A^n" =>
          \A i, j \in Nodes(n) : Out[i][j] = PathCount(A, i, j, power, n)

C17_Witness ==
    /\ pc = "A^n"
    /\ power = 3
    /\ n = 3
    /\ G = Pairs(3)
    /\ Out = <<<<2, 3, 3>>, <<3, 2, 3>>, <<3, 3, 2>>>>

\* ======================================================================
\* The DeepWalk notebook: the loop collecting the random walks in doc.
\* A graph is [num_nodes, edges], its edges directed pairs of nodes (DGL's
\* Cora holds every citation in both directions, which is not assumed here).

\* largest number of nodes of graph
MaxWalkNodes == 2

\* largest length
MaxLength == 2

\* largest num_repeats
MaxRepeats == 2

\* the number of states of the random number generator
RngStates == 2

\* the value random_walk writes where a walk has stopped early
Pad == -1

RECURSIVE SuccessorsFrom(_, _, _, _)
\* the successors u2 >= u1 of node u in ascending order
SuccessorsFrom(E, u, u1, m) ==
    IF u1 > m THEN <<>>
    ELSE (IF <<u, u1>> \in E THEN <<u1>> ELSE <<>>) \o SuccessorsFrom(E, u, u1 + 1, m)

RECURSIVE WalkFrom(_, _, _, _, _)
\* steps t..len of a walk now at cur: a successor drawn by the generator at
\* every step, Pad once a node without successor has been reached
WalkFrom(g, cur, t, len, seed) ==
    IF t > len THEN <<>>
    ELSE LET succ == IF cur = Pad THEN <<>> ELSE SuccessorsFrom(g.edges, cur, 1, g.num_nodes)
             nxt  == IF succ = <<>> THEN Pad ELSE succ[((seed + t) % Len(succ)) + 1]
         IN  <<nxt>> \o WalkFrom(g, nxt, t + 1, len, seed)

\* sentences, _ = dgl.sampling.random_walk(g, nodes=starts, length=len);
\* sentences.tolist(): one trace of len + 1 nodes per start node
random_walk(g, starts, len, seed) ==
    [k \in 1..Len(starts) |-> <<starts[k]>> \o WalkFrom(g, starts[k], 1, len, seed + starts[k])]

\* variant: list.append, the whole batch added as one item
append(list, items) == list \o <<items>>

\* list.extend(items)
extend(list, items) == list \o items

\* the notebook before its first cell
InitDeepWalk ==
    /\ pc = "graph"
    /\ Fresh

\* dataset = dgl.data.CoraGraphDataset(); graph = dataset[0]
LoadDataset ==
    /\ pc = "graph"
    /\ \E m \in 1..MaxWalkNodes : \E E \in SUBSET (Nodes(m) \X Nodes(m)) :
          graph' = [num_nodes |-> m, edges |-> E]
    /\ \E s \in 0..(RngStates - 1) : rng' = s
    /\ pc' = "nodes"
    /\ UNCHANGED <<nodes, num_repeats, length, doc, repeat>>
    /\ UNCHANGED outsideDeepWalk

\* nodes = graph.nodes(); num_repeats = 10; length = 20; doc = []
SetUpWalks ==
    /\ pc = "nodes"
    /\ nodes' = Tup([k \in 1..graph.num_nodes |-> k])
    /\ \E r \in 0..MaxRepeats : num_repeats' = r
    /\ \E len \in 1..MaxLength : length' = len
    /\ doc' = <<>>
    /\ repeat' = 0
    /\ pc' = "for"
    /\ UNCHANGED <<graph, rng>>
    /\ UNCHANGED outsideDeepWalk

\* one pass of for _ in range(num_repeats):
\*     sentences, _ = dgl.sampling.random_walk(graph, nodes=nodes, length=length)
\*     doc.extend(sentences.tolist())
WalkOnce ==
    /\ pc = "for"
    /\ repeat < num_repeats
    /\ doc' = extend(doc, random_walk(graph, nodes, length, rng))
    /\ rng' = (rng + 1) % RngStates
    /\ repeat' = repeat + 1
    /\ UNCHANGED <<pc, graph, nodes, num_repeats, length>>
    /\ UNCHANGED outsideDeepWalk

\* the loop is left; len(doc)
LenDoc ==
    /\ pc = "for"
    /\ repeat = num_repeats
    /\ pc' = "len(doc)"
    /\ UNCHANGED walkVars
    /\ UNCHANGED outsideDeepWalk

NextDeepWalk == LoadDataset \/ SetUpWalks \/ WalkOnce \/ LenDoc

SpecDeepWalk == InitDeepWalk /\ [][NextDeepWalk]_vars

\* ------------------------------------------------------- DeepWalk claims
\* s is a walk of len steps in g: it starts at a node, every step follows an
\* edge, and once it has stopped it stays stopped
IsWalk(s, g, len) ==
    /\ Len(s) = len + 1
    /\ s[1] \in Nodes(g.num_nodes)
    /\ \A t \in 1..len :
          \/ s[t] # Pad /\ <<s[t], s[t + 1]>> \in g.edges
          \/ s[t + 1] = Pad /\ (s[t] = Pad \/ ~\E u \in Nodes(g.num_nodes) : <<s[t], u>> \in g.edges)

\* C18: after r completed passes of the loop doc holds r times as many
\* sentences as the graph has nodes, pass k having added one walk per node
\* in node order; after the loop that is num_repeats times the node count.
C18_DocLength ==
    /\ pc = "for" =>
          /\ Len(doc) = repeat * graph.num_nodes
          /\ \A r \in 1..repeat : \A k \in Nodes(graph.num_nodes) :
                LET s == doc[(r - 1) * graph.num_nodes + k]
                IN  IsWalk(s, graph, length) /\ s[1] = k
    /\ pc = "len(doc)" => Len(doc) = num_repeats * graph.num_nodes

C18_Witness ==
    /\ pc = "len(doc)"
    /\ graph = [num_nodes |-> 2, edges |-> {<<1, 2>>, <<2, 1>>, <<2, 2>>}]
    /\ num_repeats = 2
    /\ length = 2
    /\ Len(doc) = 4
    /\ doc[1] = <<1, 2, 1>>
    /\ doc[4] = <<2, 2, 1>>

\* ======================================================================
\* The graph convolutional network of the PageRank notebook: the class GCN,
\* the cells building gcn_model and deep_gcn_model, and the call
\* model(g, features) made by train.  Features, weights and activations are
\* whole numbers; a graph is [num_nodes, edges, ndata], its edges directed
\* pairs <<source, destination>>.

\* largest number of nodes of cora_graph
MaxGcnNodes == 2

\* largest in_feats and largest entry of h_feats
MaxFeats == 2

\* largest num_classes
MaxClasses == 2

\* largest len(h_feats) of a model other than gcn_model and deep_gcn_model
MaxHidden == 2

\* the number of states of torch's random number generator
TorchStates == 2

\* h_feats=[16]
HiddenSize == 16

\* h_feats=[16]*20
DeepLayers == 20

\* the values passed as dropout: the default 0, and one half
Dropouts == {<<0, 1>>, <<1, 2>>}

\* the list [x]*k
Repeat(x, k) == [j \in 1..k |-> x]

\* the lists passed as h_feats
HFeats == UNION {[1..k -> 1..MaxFeats] : k \in 0..MaxHidden}

\* the graphs cora_graph is drawn from: every node has one edge coming in
\* and one going out, so that GraphConv's normalisation 1/sqrt(d_out d_in)
\* is 1 on every edge and no node has in-degree 0
RegularEdges(m) == {{<<p[u], u>> : u \in Nodes(m)} : p \in Perms(m)}

\* the node features: m rows of d entries 0 or 1
Features(m, d) == {Tup([u \in Nodes(m) |-> Tup([a \in 1..d |-> (u + a + k) % 2])]) : k \in 0..1}

\* GraphConv(din, dout): the weight drawn by the generator in state seed,
\* entries 1 and -1; the bias starts at 0
GraphConv(din, dout, seed) ==
    [in_feats  |-> din,
     out_feats |-> dout,
     weight    |-> Tup([a \in 1..din |-> Tup([b \in 1..dout |->
                      IF (seed + a + b) % 2 = 0 THEN 1 ELSE -1])])]

\* variant: no GraphConv(h_feats[-1], num_classes) appended
GCNWithoutOutputLayer(din, hf, classes, p, seed) ==
    IF Len(hf) = 0 THEN [raised |-> "IndexError"]
    ELSE [dropout     |-> p,
          conv_layers |-> Tup([k \in 1..Len(hf) |->
              IF k = 1 THEN GraphConv(din, hf[1], seed + k)
              ELSE GraphConv(hf[k - 1], hf[k], seed + k)])]

\* GCN(in_feats=din, h_feats=hf, num_classes=classes, dropout=p): h_feats[0]
\* raises IndexError on the empty list; otherwise conv_layers holds
\* GraphConv(in_feats, h_feats[0]), GraphConv(h_feats[i-1], h_feats[i]) for
\* i in range(1, len(h_feats)) and GraphConv(h_feats[-1], num_classes)
GCN(din, hf, classes, p, seed) ==
    IF Len(hf) = 0 THEN [raised |-> "IndexError"]
    ELSE [dropout     |-> p,
          conv_layers |-> Tup([k \in 1..(Len(hf) + 1) |->
              IF k = 1 THEN GraphConv(din, hf[1], seed + k)
              ELSE IF k <= Len(hf) THEN GraphConv(hf[k - 1], hf[k], seed + k)
              ELSE GraphConv(hf[Len(hf)], classes, seed + k)])]

\* layer(g, h): every node sums the rows of its in-neighbours, and the sum
\* is multiplied by the weight
Conv(gr, X, layer) ==
    LET m   == gr.num_nodes
        agg == [u \in Nodes(m) |-> [a \in 1..layer.in_feats |->
                   IntSumTo([u1 \in Nodes(m) |-> IF <<u1, u>> \in gr.edges THEN X[u1][a] ELSE 0], m)]]
    IN  Tup([u \in Nodes(m) |-> Tup([b \in 1..layer.out_feats |->
            IntSumTo([a \in 1..layer.in_feats |-> agg[u][a] * layer.weight[a][b]], layer.in_feats)])])

\* F.relu(X)
relu(X) == Tup([u \in 1..Len(X) |-> Tup([b \in 1..Len(X[u]) |-> IF X[u][b] > 0 THEN X[u][b] ELSE 0])])

\* F.dropout(X, p=p), training left at its default True: nothing happens at
\* p = 0; otherwise the generator in state seed picks the entries set to 0,
\* and the others are scaled by 1/(1 - p)
Fdropout(X, p, seed) ==
    IF p[1] = 0 THEN X
    ELSE Tup([u \in 1..Len(X) |-> Tup([b \in 1..Len(X[u]) |->
             IF p[1] = p[2] \/ (seed + u + b) % 2 = 1 THEN 0
             ELSE (X[u][b] * p[2]) \div (p[2] - p[1])])])

\* variant: if i < len(self.conv_layers)
ActivatedEveryLayer(k, len) == k < len

\* if i < len(self.conv_layers)-1
Activated(k, len) == k < len - 1

\* the notebook before the cell loading Cora
InitGCN ==
    /\ pc = "cora_dataset"
    /\ Fresh

\* cora_dataset = dgl.data.CoraGraphDataset()
LoadCoraDataset ==
    /\ pc = "cora_dataset"
    /\ \E m \in 1..MaxGcnNodes : \E E \in RegularEdges(m) : \E d \in 1..MaxFeats :
       \E X \in Features(m, d) : \E c \in 1..MaxClasses :
          cora_dataset' = [num_classes |-> c,
                           graphs |-> <<[num_nodes |-> m, edges |-> E, ndata |-> [feat |-> X]]>>]
    /\ \E s \in 0..(TorchStates - 1) : torch_seed' = s
    /\ pc' = "cora_graph"
    /\ UNCHANGED <<err, cora_graph, model, h_feats, h, i_layer, logits>>
    /\ UNCHANGED outsideGCN

\* cora_graph = cora_dataset[0]
CoraGraph ==
    /\ pc = "cora_graph"
    /\ cora_graph' = cora_dataset.graphs[1]
    /\ pc' = "GCN"
    /\ UNCHANGED <<err, cora_dataset, model, h_feats, torch_seed, h, i_layer, logits>>
    /\ UNCHANGED outsideGCN

\* cora_graph.ndata['feat'].shape[1]
FeatShape1 == Len(cora_graph.ndata.feat[1])

\* gcn_model = GCN(in_feats=cora_graph.ndata['feat'].shape[1], h_feats=[16],
\*                 num_classes=cora_dataset.num_classes), then passed to train
GcnModel ==
    /\ pc = "GCN"
    /\ h_feats' = <<HiddenSize>>
    /\ model' = GCN(FeatShape1, h_feats', cora_dataset.num_classes, <<0, 1>>, torch_seed)
    /\ torch_seed' = (torch_seed + 1) % TorchStates
    /\ pc' = "train"
    /\ UNCHANGED <<err, cora_dataset, cora_graph, h, i_layer, logits>>
    /\ UNCHANGED outsideGCN

\* deep_gcn_model = GCN(in_feats=cora_graph.ndata['feat'].shape[1],
\*                      h_feats=[16]*20, num_classes=cora_dataset.num_classes)
DeepGcnModel ==
    /\ pc = "GCN"
    /\ h_feats' = Repeat(HiddenSize, DeepLayers)
    /\ model' = GCN(FeatShape1, h_feats', cora_dataset.num_classes, <<0, 1>>, torch_seed)
    /\ torch_seed' = (torch_seed + 1) % TorchStates
    /\ pc' = "deep_gcn_model"
    /\ UNCHANGED <<err, cora_dataset, cora_graph, h, i_layer, logits>>
    /\ UNCHANGED outsideGCN

\* a model of any number of layers: GCN(in_feats, h_feats, num_classes,
\* dropout) on a list and a dropout of the caller's choice, then passed to
\* train; the IndexError of h_feats[0] ends the cell
AnyGcnModel ==
    /\ pc = "GCN"
    /\ \E hf \in HFeats : \E p \in Dropouts :
       \E net \in {GCN(FeatShape1, hf, cora_dataset.num_classes, p, torch_seed)} :
          /\ h_feats' = hf
          /\ IF "raised" \in DOMAIN net
             THEN /\ err' = "IndexError"
                  /\ pc' = "raised"
                  /\ UNCHANGED <<model, torch_seed>>
             ELSE /\ model' = net
                  /\ torch_seed' = (torch_seed + 1) % TorchStates
                  /\ pc' = "train"
                  /\ UNCHANGED err
    /\ UNCHANGED <<cora_dataset, cora_graph, h, i_layer, logits>>
    /\ UNCHANGED outsideGCN

\* train: features = g.ndata['feat']; logits = model(g, features) enters
\* GCN.forward: h = in_feat, and the loop over self.conv_layers starts
ForwardEnter ==
    /\ pc = "train"
    /\ h' = cora_graph.ndata.feat
    /\ i_layer' = 0
    /\ pc' = "forward"
    /\ UNCHANGED <<err, cora_dataset, cora_graph, model, h_feats, torch_seed, logits>>
    /\ UNCHANGED outsideGCN

\* one pass of for i, layer in enumerate(self.conv_layers):
\*     h = layer(g, h)
\*     if i < len(self.conv_layers)-1:
\*         h = F.dropout(F.relu(h), p=self.dropout)
ForwardLayer ==
    /\ pc = "forward"
    /\ i_layer < Len(model.conv_layers)
    /\ \E out \in {Conv(cora_graph, h, model.conv_layers[i_layer + 1])} :
          IF Activated(i_layer, Len(model.conv_layers))
          THEN /\ h' = Fdropout(relu(out), model.dropout, torch_seed)
               /\ torch_seed' = (torch_seed + 1) % TorchStates
          ELSE /\ h' = out
               /\ UNCHANGED torch_seed
    /\ i_layer' = i_layer + 1
    /\ UNCHANGED <<pc, err, cora_dataset, cora_graph, model, h_feats, logits>>
    /\ UNCHANGED outsideGCN

\* return h, bound to logits by train
ForwardReturn ==
    /\ pc = "forward"
    /\ i_layer = Len(model.conv_layers)
    /\ logits' = h
    /\ pc' = "logits"
    /\ UNCHANGED <<err, cora_dataset, cora_graph, model, h_feats, torch_seed, h, i_layer>>
    /\ UNCHANGED outsideGCN

NextGCN ==
    \/ LoadCoraDataset
    \/ CoraGraph
    \/ GcnModel
    \/ DeepGcnModel
    \/ AnyGcnModel
    \/ ForwardEnter
    \/ ForwardLayer
    \/ ForwardReturn

SpecGCN == InitGCN /\ [][NextGCN]_vars

\* ------------------------------------------------------------ GCN claims
\* a model has been built by the last GCN(...) call
GcnBuilt == pc \in {"train", "deep_gcn_model", "forward", "logits"}

RECURSIVE Hidden(_, _, _, _, _)
\* the node embeddings after the first k layers of net when each of them is
\* followed by ReLU and dropout, the generator being in state s0 at the
\* first dropout
Hidden(net, gr, X, k, s0) ==
    IF k = 0 THEN X
    ELSE Fdropout(relu(Conv(gr, Hidden(net, gr, X, k - 1, s0), net.conv_layers[k])),
                  net.dropout, (s0 + k - 1) % TorchStates)

\* C20: in forward every layer but the last is followed by ReLU and
\* dropout, and what is returned is the last layer's own output on the
\* activated output of the layers before it, whatever the number of layers.
C20_LastLayerNotActivated ==
    /\ pc = "forward" /\ i_layer < Len(model.conv_layers) =>
          \E s0 \in 0..(TorchStates - 1) :
             h = Hidden(model, cora_graph, cora_graph.ndata.feat, i_layer, s0)
    /\ pc = "logits" =>
          \E s0 \in 0..(TorchStates - 1) :
             logits = Conv(cora_graph,
                           Hidden(model, cora_graph, cora_graph.ndata.feat,
                                  Len(model.conv_layers) - 1, s0),
                           model.conv_layers[Len(model.conv_layers)])

C20_Witness ==
    /\ pc = "logits"
    /\ Len(model.conv_layers) = 3
    /\ model.dropout = <<1, 2>>
    /\ \E u \in Nodes(cora_graph.num_nodes) : \E b \in 1..Len(logits[u]) : logits[u][b] < 0
    /\ \E u \in Nodes(cora_graph.num_nodes) : \E b \in 1..Len(logits[u]) : logits[u][b] > 0
    /\ logits # Fdropout(relu(logits), model.dropout, 0)
    /\ logits # Fdropout(relu(logits), model.dropout, 1)

\* ======================================================================
\* train(g, model, epochs) of the PageRank notebook, as far as the
\* accuracies go: the weights the optimizer leaves after an epoch are not
\* followed, so pred = logits.argmax(1) is any class per node.

\* largest number of nodes of the graph passed to train
MaxTrainNodes == 3

\* largest epochs
MaxEpochs == 2

\* the number of classes of the labels
NumLabels == 2

\* (pred[mask] == labels[mask]).float().mean(): the share of the nodes of
\* mask whose prediction is their label, nan on an empty mask
Accuracy(pred, labels, mask) ==
    Norm(Cardinality({u \in mask : pred[u] = labels[u]}), Cardinality(mask))

\* the splits of m nodes: as in Cora the first nodes train, the next ones
\* validate and the last ones test, no part empty
Splits(m) ==
    {[train_mask |-> 1..a, val_mask |-> (a + 1)..b, test_mask |-> c..m] :
        <<a, b, c>> \in {t \in Nodes(m) \X Nodes(m) \X Nodes(m) : t[1] < t[2] /\ t[2] < t[3]}}

\* variant: if best_val_acc <= val_acc
ImprovedOrEqual(best, val_acc) == Leq(best, val_acc)

\* if best_val_acc < val_acc
Improved(best, val_acc) == Less(best, val_acc)

\* the notebook before the cell loading Cora
InitTrain ==
    /\ pc = "cora_dataset"
    /\ Fresh

\* cora_dataset = dgl.data.CoraGraphDataset(); cora_graph = cora_dataset[0]:
\* the labels and the masks of the nodes
LoadCoraSplit ==
    /\ pc = "cora_dataset"
    /\ \E m \in 3..MaxTrainNodes : \E lab \in [Nodes(m) -> 1..NumLabels] : \E split \in Splits(m) :
          /\ cora_graph' = [num_nodes |-> m,
                            ndata |-> [label |-> lab,
                                       train_mask |-> split.train_mask,
                                       val_mask |-> split.val_mask,
                                       test_mask |-> split.test_mask]]
          /\ cora_dataset' = [num_classes |-> NumLabels, graphs |-> <<cora_graph'>>]
    /\ pc' = "train"
    /\ UNCHANGED <<model, h_feats, torch_seed, h, i_layer, logits>>
    /\ UNCHANGED trainVars
    /\ UNCHANGED outsideTrain

\* train(cora_graph, model, epochs=...) up to the loop: losses, accs,
\* best_val_acc = 0, best_test_acc = 0
TrainEnter ==
    /\ pc = "train"
    /\ \E k \in 0..MaxEpochs : epochs' = k
    /\ accs' = [train |-> <<>>, val |-> <<>>, test |-> <<>>]
    /\ best_val_acc' = Zero
    /\ best_test_acc' = Zero
    /\ epoch' = 0
    /\ pc' = "for e"
    /\ UNCHANGED gcnVars
    /\ UNCHANGED outsideTrain

\* one pass of for e in range(epochs): the accuracies of pred on the three
\* masks are appended to accs, and the best validation accuracy and the
\* test accuracy that came with it are saved
TrainEpoch ==
    /\ pc = "for e"
    /\ epoch < epochs
    /\ \E pred \in [Nodes(cora_graph.num_nodes) -> 1..NumLabels] :
          LET labels    == cora_graph.ndata.label
              train_acc == Accuracy(pred, labels, cora_graph.ndata.train_mask)
              val_acc   == Accuracy(pred, labels, cora_graph.ndata.val_mask)
              test_acc  == Accuracy(pred, labels, cora_graph.ndata.test_mask)
          IN  /\ accs' = [train |-> Append(accs.train, train_acc),
                          val   |-> Append(accs.val, val_acc),
                          test  |-> Append(accs.test, test_acc)]
              /\ IF Improved(best_val_acc, val_acc)
                 THEN /\ best_val_acc' = val_acc
                      /\ best_test_acc' = test_acc
                 ELSE UNCHANGED <<best_val_acc, best_test_acc>>
    /\ epoch' = epoch + 1
    /\ UNCHANGED <<pc, epochs>>
    /\ UNCHANGED gcnVars
    /\ UNCHANGED outsideTrain

\* return losses, accs
TrainReturn ==
    /\ pc = "for e"
    /\ epoch = epochs
    /\ pc' = "gcn_accs"
    /\ UNCHANGED trainVars
    /\ UNCHANGED gcnVars
    /\ UNCHANGED outsideTrain

NextTrain == LoadCoraSplit \/ TrainEnter \/ TrainEpoch \/ TrainReturn

SpecTrain == InitTrain /\ [][NextTrain]_vars

\* ----------------------------------------------------------- train claims
\* train has run at least one epoch
EpochRun == pc \in {"for e", "gcn_accs"} /\ epoch >= 1

\* the largest of the accuracies xs
Best(xs) == CHOOSE x \in {xs[k] : k \in 1..Len(xs)} : \A k \in 1..Len(xs) : Leq(xs[k], x)

\* the first epoch whose accuracy in xs is x
FirstEpoch(xs, x) == CHOOSE k \in 1..Len(xs) : xs[k] = x /\ \A k1 \in 1..(k - 1) : xs[k1] # x

LinkNodeCounts == 3..5

\* largest number of ordered pairs among the first two nodes that are not
\* edges of graph (every other ordered pair is an edge)
MaxMissing == 2

\* the graphs on m nodes the cells are run on
DenseGraphs(m) ==
    {[num_nodes |-> m, edges |-> (Nodes(m) \X Nodes(m)) \ Missing] :
        Missing \in {S \in SUBSET (Nodes(2) \X Nodes(2)) : Cardinality(S) <= MaxMissing}}

RECURSIVE EdgeListFrom(_, _, _)
\* the edges of E among the ordered pairs number p, p + 1, ..., m * m
EdgeListFrom(E, p, m) ==
    IF p > m * m THEN <<>>
    ELSE LET pair == <<((p - 1) \div m) + 1, ((p - 1) % m) + 1>>
         IN  (IF pair \in E THEN <<pair>> ELSE <<>>) \o EdgeListFrom(E, p + 1, m)

\* the edges of g, listed by edge id
EdgeList(g) == EdgeListFrom(g.edges, 1, g.num_nodes)

\* g.edges(): the sources and the targets of the edges, by edge id
graph_edges(g) ==
    LET el == EdgeList(g)
    IN  <<Tup([i \in 1..Len(el) |-> el[i][1]]), Tup([i \in 1..Len(el) |-> el[i][2]])>>

\* int(k * 0.1)
IntTenth(k) == k \div 10

\* tensor[idx]
Index(tensor, idx) == Tup([j \in 1..Len(idx) |-> tensor[idx[j]]])

\* torch.ones(k, dtype=int)
ones(k) == Tup([j \in 1..k |-> 1])

\* torch.zeros(k)
zeros(k) == Tup([j \in 1..k |-> 0])

\* variant: the edge looked for runs from t to s
has_edges_towards(g, s, t) == <<t, s>> \in g.edges

\* g.has_edges_between(s, t): there is an edge from s to t
has_edges_between(g, s, t) == <<s, t>> \in g.edges

\* g.edge_ids(us, vs) raises DGLError: some us[j], vs[j] is no edge of g
NoSuchEdge(g, us, vs) == \E j \in 1..Len(us) : <<us[j], vs[j]>> \notin g.edges

\* g.edge_ids(us, vs): the id of the edge from us[j] to vs[j] for every j
edge_ids(g, us, vs) ==
    LET el == EdgeList(g)
    IN  Tup([j \in 1..Len(us) |-> CHOOSE i \in 1..Len(el) : el[i] = <<us[j], vs[j]>>])

\* variant: g.edge_subgraph(ids), the listed edges are the ones kept
remove_all_but(g, ids) ==
    LET el == EdgeList(g)
    IN  [num_nodes |-> g.num_nodes,
         edges |-> {el[i] : i \in {ids[j] : j \in 1..Len(ids)}}]

\* g.remove_edges(ids): the edges whose id is listed are dropped, an id
\* listed twice as one listed once
remove_edges(g, ids) ==
    LET el == EdgeList(g)
    IN  [num_nodes |-> g.num_nodes,
         edges |-> {el[i] : i \in (1..Len(el)) \ {ids[j] : j \in 1..Len(ids)}}]

\* variant: torch.zeros(num_train_edges)
NegativeLabelsPerPositive(src, k) == zeros(k)

\* torch.zeros(len(source_nodes))
NegativeLabels(src, k) == zeros(Len(src))

\* variant: the positive edges are removed before the negatives are sampled
GraphAfterRemoval(g, ids) == remove_edges(g, ids)

\* the graph the negative sampling loop tests its pairs against: graph as it
\* is, graph.remove_edges(eids) being run only after the loop
GraphWhenSampling(g, ids) == g

\* the notebook before its link prediction part
InitLink ==
    /\ pc = "link"
    /\ Fresh

\* what the cells before the link prediction part leave in graph and nodes:
\* graph = dataset[0]; nodes = graph.nodes()
LoadLinkGraph ==
    /\ pc = "link"
    /\ \E m \in LinkNodeCounts : \E g \in DenseGraphs(m) :
          /\ graph' = g
          /\ nodes' = Tup([k \in 1..m |-> k])
    /\ pc' = "all_edges"
    /\ UNCHANGED <<err, linkVars>>
    /\ UNCHANGED outsideLink

\* all_edges = graph.edges()
AllEdges ==
    /\ pc = "all_edges"
    /\ all_edges' = graph_edges(graph)
    /\ pc' = "num_train_edges"
    /\ UNCHANGED <<err, graph, nodes, num_train_edges, edge_index, edges, edge_labels, eids,
                   source_nodes_candidate, target_nodes_candidate, source_nodes, target_nodes,
                   count, zip_pos>>
    /\ UNCHANGED outsideLink

\* num_train_edges = int(len(all_edges[0]) * 0.1)
\* edge_index = np.random.randint(0, len(all_edges[0]), size=num_train_edges)
\* edges = (all_edges[0][edge_index], all_edges[1][edge_index])
\* edge_labels = torch.ones(num_train_edges, dtype=int)
SelectPositives ==
    /\ pc = "num_train_edges"
    /\ num_train_edges' = IntTenth(Len(all_edges[1]))
    /\ \E idx \in [1..num_train_edges' -> 1..Len(all_edges[1])] : edge_index' = Tup(idx)
    /\ edges' = <<Index(all_edges[1], edge_index'), Index(all_edges[2], edge_index')>>
    /\ edge_labels' = ones(num_train_edges')
    /\ pc' = "eids"
    /\ UNCHANGED <<err, graph, nodes, all_edges, eids,
                   source_nodes_candidate, target_nodes_candidate, source_nodes, target_nodes,
                   count, zip_pos>>
    /\ UNCHANGED outsideLink

\* eids = graph.edge_ids(edges[0], edges[1])
EdgeIds ==
    /\ pc = "eids"
    /\ IF NoSuchEdge(graph, edges[1], edges[2])
       THEN /\ err' = "DGLError"
            /\ pc' = "raised"
            /\ UNCHANGED eids
       ELSE /\ eids' = edge_ids(graph, edges[1], edges[2])
            /\ pc' = "source_nodes_candidate"
            /\ UNCHANGED err
    /\ UNCHANGED <<graph, nodes, all_edges, num_train_edges, edge_index, edges, edge_labels,
                   source_nodes_candidate, target_nodes_candidate, source_nodes, target_nodes,
                   count, zip_pos>>
    /\ UNCHANGED outsideLink

\* source_nodes_candidate = nodes[torch.randperm(num_train_edges)]
\* target_nodes_candidate = nodes[torch.randperm(num_train_edges)]
\* source_nodes = []; target_nodes = []; count = 0, and zip(...) is set up;
\* IndexError when there are fewer nodes than num_train_edges
NegativeCandidates ==
    /\ pc = "source_nodes_candidate"
    /\ IF num_train_edges > Len(nodes)
       THEN /\ err' = "IndexError"
            /\ pc' = "raised"
            /\ UNCHANGED <<source_nodes_candidate, target_nodes_candidate, source_nodes,
                           target_nodes, count, zip_pos>>
       ELSE /\ \E p1 \in Perms(num_train_edges) : source_nodes_candidate' = Index(nodes, p1)
            /\ \E p2 \in Perms(num_train_edges) : target_nodes_candidate' = Index(nodes, p2)
            /\ source_nodes' = <<>>
            /\ target_nodes' = <<>>
            /\ count' = 0
            /\ zip_pos' = 0
            /\ pc' = "for s, t"
            /\ UNCHANGED err
    /\ UNCHANGED <<graph, nodes, all_edges, num_train_edges, edge_index, edges, edge_labels, eids>>
    /\ UNCHANGED outsideLink

\* one pass of for s, t in zip(source_nodes_candidate, target_nodes_candidate):
\*     if not graph.has_edges_between(s, t):
\*         source_nodes.append(s.item()); target_nodes.append(t.item()); count += 1
\*     if count == num_train_edges: break
NegativeLoop ==
    /\ pc = "for s, t"
    /\ zip_pos < Len(source_nodes_candidate)
    /\ LET s == source_nodes_candidate[zip_pos + 1]
           t == target_nodes_candidate[zip_pos + 1]
       IN  IF ~has_edges_between(GraphWhenSampling(graph, eids), s, t)
           THEN /\ source_nodes' = Append(source_nodes, s)
                /\ target_nodes' = Append(target_nodes, t)
                /\ count' = count + 1
           ELSE UNCHANGED <<source_nodes, target_nodes, count>>
    /\ zip_pos' = zip_pos + 1
    /\ pc' = IF count' = num_train_edges THEN "cat edges" ELSE "for s, t"
    /\ UNCHANGED <<err, graph, nodes, all_edges, num_train_edges, edge_index, edges, edge_labels,
                   eids, source_nodes_candidate, target_nodes_candidate>>
    /\ UNCHANGED outsideLink

\* zip has no pair left: the loop is over; len(source_nodes), len(target_nodes)
NegativeLoopEnd ==
    /\ pc = "for s, t"
    /\ zip_pos = Len(source_nodes_candidate)
    /\ pc' = "cat edges"
    /\ UNCHANGED <<err, graph, nodes, linkVars>>
    /\ UNCHANGED outsideLink

\* edges = (torch.cat((edges[0], torch.tensor(source_nodes))),
\*          torch.cat((edges[1], torch.tensor(target_nodes))))
CatEdges ==
    /\ pc = "cat edges"
    /\ edges' = <<edges[1] \o source_nodes, edges[2] \o target_nodes>>
    /\ pc' = "cat edge_labels"
    /\ UNCHANGED <<err, graph, nodes, all_edges, num_train_edges, edge_index, edge_labels, eids,
                   source_nodes_candidate, target_nodes_candidate, source_nodes, target_nodes,
                   count, zip_pos>>
    /\ UNCHANGED outsideLink

\* edge_labels = torch.cat((edge_labels, torch.zeros(len(source_nodes))))
CatLabels ==
    /\ pc = "cat edge_labels"
    /\ edge_labels' = edge_labels \o NegativeLabels(source_nodes, num_train_edges)
    /\ pc' = "remove_edges"
    /\ UNCHANGED <<err, graph, nodes, all_edges, num_train_edges, edge_index, edges, eids,
                   source_nodes_candidate, target_nodes_candidate, source_nodes, target_nodes,
                   count, zip_pos>>
    /\ UNCHANGED outsideLink

\* graph.remove_edges(eids)
RemoveEdges ==
    /\ pc = "remove_edges"
    /\ graph' = remove_edges(graph, eids)
    /\ pc' = "removed"
    /\ UNCHANGED <<err, nodes, linkVars>>
    /\ UNCHANGED outsideLink

NextLink ==
    \/ LoadLinkGraph
    \/ AllEdges
    \/ SelectPositives
    \/ EdgeIds
    \/ NegativeCandidates
    \/ NegativeLoop
    \/ NegativeLoopEnd
    \/ CatEdges
    \/ CatLabels
    \/ RemoveEdges

SpecLink == InitLink /\ [][NextLink]_vars

\* ------------------------------------------------- link prediction claims
\* the ordered pairs held at position j of a pair of tensors
PairAt(tensors, j) == <<tensors[1][j], tensors[2][j]>>

\* the edges graph had when all_edges was taken
EdgesThen == {PairAt(all_edges, i) : i \in 1..Len(all_edges[1])}

\* the negative sampling loop has started and graph.remove_edges has not run
Sampling == pc \in {"for s, t", "cat edges", "cat edge_labels", "remove_edges"}

\* C22: every pair (s, t) the negative sampling loop has collected is a pair
\* of nodes with no edge from s to t in graph as it is while the loop runs
\* (and none from t to s where graph holds every edge in both directions),
\* and the loop never holds more than num_train_edges pairs.
C22_NegativesAreNonEdges ==
    Sampling =>
        /\ graph.edges = EdgesThen
        /\ Len(source_nodes) = count
        /\ Len(target_nodes) = count
        /\ count <= num_train_edges
        /\ count <= zip_pos
        /\ \A j \in 1..count :
              /\ source_nodes[j] \in Nodes(graph.num_nodes)
              /\ target_nodes[j] \in Nodes(graph.num_nodes)
              /\ <<source_nodes[j], target_nodes[j]>> \notin graph.edges
              /\ (\A pair \in graph.edges : <<pair[2], pair[1]>> \in graph.edges)
                    => <<target_nodes[j], source_nodes[j]>> \notin graph.edges

C22_Witness ==
    /\ pc = "cat edges"
    /\ num_train_edges = 2
    /\ zip_pos = 2
    /\ source_nodes_candidate = <<2, 1>>
    /\ target_nodes_candidate = <<1, 2>>
    /\ <<2, 1>> \in graph.edges
    /\ source_nodes = <<1>>
    /\ target_nodes = <<2>>

\* C23: after graph.remove_edges(eids) no positive example edge (source,
\* target) is an edge of graph any more, and every other edge still is.
C23_PositivesRemoved ==
    pc = "removed" =>
        /\ \A i \in 1..num_train_edges : PairAt(edges, i) \notin graph.edges
        /\ graph.edges = EdgesThen \ {PairAt(edges, i) : i \in 1..num_train_edges}

C23_Witness ==
    /\ pc = "removed"
    /\ num_train_edges = 2
    /\ PairAt(edges, 1) = <<1, 1>>
    /\ PairAt(edges, 2) = <<5, 4>>
    /\ <<4, 5>> \in graph.edges
    /\ Cardinality(graph.edges) = Len(all_edges[1]) - 2

\* both concatenations have been made
Concatenated == pc \in {"remove_edges", "removed"}

\* C24: once edges and edge_labels are concatenated they have the same
\* length; the first num_train_edges positions hold an edge of the graph
\* with label 1 and every later position a collected negative pair with
\* label 0.
C24_LabelsMatchExamples ==
    Concatenated =>
        /\ Len(edges[1]) = Len(edge_labels)
        /\ Len(edges[2]) = Len(edge_labels)
        /\ Len(edge_labels) = num_train_edges + Len(source_nodes)
        /\ \A j \in 1..Len(edge_labels) :
              IF j <= num_train_edges
              THEN /\ edge_labels[j] = 1
                   /\ PairAt(edges, j) \in EdgesThen
                   /\ PairAt(edges, j) = PairAt(all_edges, edge_index[j])
              ELSE /\ edge_labels[j] = 0
                   /\ PairAt(edges, j) \notin EdgesThen
                   /\ PairAt(edges, j) = <<source_nodes[j - num_train_edges],
                                           target_nodes[j - num_train_edges]>>

C24_Witness ==
    /\ pc = "remove_edges"
    /\ num_train_edges = 2
    /\ edge_labels = <<1, 1, 0>>
    /\ edges = <<<<3, 3, 2>>, <<4, 4, 2>>>>

\* the positive examples are chosen and the negative ones are being or
\* have been collected
Sampled == Sampling \/ pc = "removed"

\* C25: no ordered pair (s, t) is both a positive and a negative example:
\* the positives are edges of the graph, the negatives are not, and graph
\* is the same all the time the negatives are collected.
C25_PositivesAndNegativesDisjoint ==
    Sampled =>
        /\ \A i \in 1..num_train_edges : \A j \in 1..Len(source_nodes) :
              PairAt(edges, i) # <<source_nodes[j], target_nodes[j]>>
        /\ \A i \in 1..num_train_edges : PairAt(edges, i) \in EdgesThen
        /\ \A j \in 1..Len(source_nodes) : <<source_nodes[j], target_nodes[j]>> \notin EdgesThen

C25_Witness ==
    /\ pc = "removed"
    /\ num_train_edges = 2
    /\ PairAt(edges, 1) = <<2, 1>>
    /\ PairAt(edges, 2) = <<2, 1>>
    /\ source_nodes = <<1>>
    /\ target_nodes = <<2>>
    /\ source_nodes_candidate = <<2, 1>>
    /\ target_nodes_candidate = <<1, 2>>

====
